---- MODULE Spec2Model ----
(***************************************************************************)
(* A model of the reconciliation engine (engine/ai_state.py over           *)
(* engine/ai_db.py) and of the session-memory pack codec                   *)
(* (engine/memory_core/packs.py over engine/memory_core/store_sqlite.py).  *)
(*                                                                         *)
(* Conventions                                                             *)
(*  - A file's content is a sequence of bytes; one byte stands for one     *)
(*    entry of the YAML list the file holds ("a", "b": well-formed         *)
(*    entries; "k": an entry that lacks a key the ingest subscripts;       *)
(*    "!": text that is not YAML).                                         *)
(*  - A SHA-256 digest is taken to be collision-free and is represented by *)
(*    the byte string that was hashed.                                     *)
(*  - A Python Optional is a set of at most one element: None is {}.       *)
(*  - SQL NULL in a text column is the string Null.                        *)
(*  - A sqlite3 connection in the default isolation level opens a          *)
(*    transaction at the first DML statement and publishes it at commit(); *)
(*    db is the committed content, the only thing another connection can   *)
(*    read.  A handler that raises before its commit() leaves db alone:    *)
(*    the pending transaction is rolled back when the connection goes.     *)
(***************************************************************************)
EXTENDS Integers, Sequences, FiniteSets, TLC

\* ------------------------------------------------------------------ bounds

\* Edits an external editor makes to the canonical files in one behaviour.
MaxEdits == 1
\* Commands (status, import-memory, rehydrate-db) run in one behaviour.
MaxOps == 2

\* Largest AUTOINCREMENT id a table of the session memory store may reach.
MaxId == 2
\* Readings of the wall clock by the session memory store in one behaviour.
MaxTime == 4

\* ------------------------------------------------------- canonical documents

Null == "NULL"

Absent == [exists |-> FALSE, bytes |-> <<>>]
File(bs) == [exists |-> TRUE, bytes |-> bs]

\* The contents an editor may give a canonical file.
Contents == { <<>>, <<"a">>, <<"a", "b">>, <<"k">>, <<"!">> }

CanonicalNames == {"team", "board", "approvals", "commands"}

Sha256(bytes) == bytes

Bytes(f) == IF f.exists THEN f.bytes ELSE <<>>

\* sorted([...]) is approvals, board, commands, team; a missing file adds nothing.
compute_canonical_hash(fs) ==
    Sha256(Bytes(fs.approvals) \o Bytes(fs.board) \o Bytes(fs.commands) \o Bytes(fs.team))

Contains(bs, x) == \E i \in 1..Len(bs) : bs[i] = x

\* path.read_text() raises on a missing file, yaml.safe_load on text that is not YAML.
load_yaml_raises(f) == ~f.exists \/ Contains(f.bytes, "!")

\* yaml.safe_load(text) or {}: the entries of the document, in order.
load_yaml(f) == f.bytes

load_canonical_ingested_only(fs) ==
    \E n \in {"team", "board", "approvals"} : load_yaml_raises(fs[n])

load_canonical_raises(fs) == \E n \in CanonicalNames : load_yaml_raises(fs[n])

load_canonical(fs) ==
    [team |-> load_yaml(fs.team), board |-> load_yaml(fs.board),
     approvals |-> load_yaml(fs.approvals), commands |-> load_yaml(fs.commands)]

NoState == [team |-> <<>>, board |-> <<>>, approvals |-> <<>>, commands |-> <<>>]

\* ------------------------------------------------------------ the cache (ai_db)

\* SCHEMA_SQL applied to a new file: five empty tables.
EmptyDb ==
    [exists |-> TRUE, workers |-> {}, tasks |-> {}, approvals |-> {},
     snapshots |-> {}, events |-> <<>>, seq_approvals |-> 0]

NoDb == [EmptyDb EXCEPT !.exists = FALSE]

create_db(d) == IF d.exists THEN d ELSE EmptyDb

connect_db(d) == IF ~d.exists THEN create_db(d) ELSE d

\* SCHEMA_SQL: the tables, in the order of its statements.
SchemaTables == <<"events", "workers", "tasks", "approvals", "snapshots">>

\* CREATE TABLE name, whether or not the table exists.
create_table_always(schema, name) == Append(schema, name)

\* CREATE TABLE IF NOT EXISTS name.
create_table(schema, name) ==
    IF \E i \in DOMAIN schema : schema[i] = name THEN schema ELSE Append(schema, name)

\* INSERT OR REPLACE on a table whose primary key is column id.
InsertOrReplace(tbl, row) == {r \in tbl : r.id # row.id} \cup {row}

WorkerRow(id, role_id, title, department, provider, model, reports_to, authority) ==
    [id |-> id, role_id |-> role_id, title |-> title, department |-> department,
     provider |-> provider, model |-> model, reports_to |-> reports_to,
     authority |-> authority]

\* The role a byte of team.yaml stands for: role "b" lists one worker, the
\* others none.  Optional keys are left out, so the ingest's defaults apply.
RoleWorkers(x) == IF x = "b" THEN <<"b1">> ELSE <<>>

OrchestratorRow ==
    WorkerRow("orchestrator", "orchestrator", "Orchestrator", "orchestration",
              Null, Null, Null, "write")

RECURSIVE InsertWorkers(_, _, _)
InsertWorkers(tbl, role_id, ws) ==
    IF ws = <<>> THEN tbl
    ELSE InsertWorkers(
            InsertOrReplace(tbl, WorkerRow(Head(ws), role_id, "", "", "", "", "", "read")),
            role_id, Tail(ws))

RECURSIVE IngestRoles(_, _)
IngestRoles(tbl, roles) ==
    IF roles = <<>> THEN tbl
    ELSE LET x == Head(roles)
             t1 == InsertWorkers(tbl, x, RoleWorkers(x))
             t2 == IF RoleWorkers(x) = <<>>
                   THEN InsertOrReplace(t1, WorkerRow(x, x, "", "", Null, Null, "", "read"))
                   ELSE t1
         IN IngestRoles(t2, Tail(roles))

\* role["role_id"] raises KeyError on an entry without that key.
ingest_team_raises(team_data) == Contains(team_data, "k")

ingest_team_keep(workers, team_data) ==
    IngestRoles(InsertOrReplace(workers, OrchestratorRow), team_data)

\* DELETE FROM workers, then the orchestrator row and a row per worker or role.
ingest_team(workers, team_data) ==
    IngestRoles(InsertOrReplace({}, OrchestratorRow), team_data)

TaskRow(x, now) ==
    [id |-> x, title |-> x, status |-> IF x = "b" THEN "in_progress" ELSE "backlog",
     owner_role |-> "", requires_approval_json |-> "[]", updated_ts |-> now]

RECURSIVE InsertTasks(_, _, _)
InsertTasks(tbl, tasks, now) ==
    IF tasks = <<>> THEN tbl
    ELSE InsertTasks(InsertOrReplace(tbl, TaskRow(Head(tasks), now)), Tail(tasks), now)

\* task["id"], task["title"], task["status"] raise KeyError on an entry without them.
ingest_board_raises(board_data) == Contains(board_data, "k")

\* DELETE FROM tasks, then a row per task.
ingest_board(tasks, board_data, now) == InsertTasks({}, board_data, now)

ApprovalRow(id, x) ==
    [id |-> id, task_id |-> x, approval_type |-> "",
     status |-> IF x = "b" THEN "approved" ELSE "pending", approved_by |-> "", ts |-> ""]

\* entry.get raises AttributeError on an entry that is not a mapping.
ingest_approvals_raises(approvals_data) == Contains(approvals_data, "k")

\* DELETE FROM approvals, then a row per approval_log entry; id is AUTOINCREMENT,
\* so it continues after the largest id the table ever held.
ingest_approvals(approvals, seq, approvals_data) ==
    {ApprovalRow(seq + i, approvals_data[i]) : i \in 1..Len(approvals_data)}

hash_unchanged_never(stored_hash, current_hash) == FALSE

\* stored_hash == current_hash, stored_hash an Optional.
hash_unchanged(stored_hash, current_hash) == stored_hash = {current_hash}

set_snapshot_insert(snapshots, key, value) ==
    snapshots \cup {[key |-> key, value |-> value]}

\* INSERT OR REPLACE INTO snapshots: key is the primary key.
set_snapshot(snapshots, key, value) ==
    {r \in snapshots : r.key # key} \cup {[key |-> key, value |-> value]}

get_snapshot(snapshots, key) == {r.value : r \in {q \in snapshots : q.key = key}}

EventRow(ts, actor, type, payload) ==
    [ts |-> ts, actor |-> actor, type |-> type, payload_json |-> payload]

\* INSERT INTO events: the log grows at its end (id is AUTOINCREMENT).
add_event(events, ts, actor, type, payload) ==
    Append(events, EventRow(ts, actor, type, payload))

import_events_replace(events, evs) ==
    [i \in 1..(IF Len(events) > Len(evs) THEN Len(events) ELSE Len(evs)) |->
        IF i <= Len(evs)
        THEN EventRow(evs[i].ts, evs[i].actor, evs[i].type, evs[i].payload)
        ELSE events[i]]

\* INSERT INTO events for every event of the pack, in order: ev["ts"], ev["actor"],
\* ev["type"], ev.get("payload").
RECURSIVE import_events(_, _)
import_events(events, evs) ==
    IF evs = <<>> THEN events
    ELSE import_events(
            Append(events, EventRow(Head(evs).ts, Head(evs).actor, Head(evs).type,
                                    Head(evs).payload)),
            Tail(evs))

\* SELECT * FROM workers, tasks, approvals: what derived_state.json holds.
export_derived(d) == [workers |-> d.workers, tasks |-> d.tasks, approvals |-> d.approvals]

\* The cache-derived packs an operator may hand to import_memory: a directory or
\* an archive, its manifest (if any) with a version and the canonical hash the
\* exporter computed, the lines of events.jsonl, and derived_state.json (an
\* Optional: the file may be missing).
PackEvent == [ts |-> 0, actor |-> "system", type |-> "reconcile", payload |-> {}]

CachePack(zip, manifest, version, canonical_hash, events, derived_state) ==
    [zip |-> zip, manifest |-> manifest, version |-> version,
     canonical_hash |-> canonical_hash, events |-> events,
     derived_state |-> derived_state]

CachePacks ==
    { CachePack(FALSE, TRUE, "1.0", <<"a", "a">>, <<PackEvent>>, {export_derived(EmptyDb)}),
      CachePack(TRUE, TRUE, "1.0", <<"a">>, <<>>, {export_derived(EmptyDb)}),
      CachePack(TRUE, FALSE, "1.0", <<>>, <<PackEvent>>, {export_derived(EmptyDb)}),
      CachePack(FALSE, TRUE, "2.0", <<"a", "a">>, <<PackEvent>>, {export_derived(EmptyDb)}) }

\* Packs of another project's cache: their derived_state.json holds a worker
\* that no canonical document of this one lists.  The first carries the hash
\* of the documents the model starts with, the second another one, and the
\* third has no derived_state.json.
ForeignDerived ==
    [workers |-> {WorkerRow("z1", "z", "", "", "", "", "", "write")},
     tasks |-> {}, approvals |-> {}]

DerivedPacks ==
    { CachePack(FALSE, TRUE, "1.0", <<"a", "a", "b", "a", "b">>, <<PackEvent>>,
                {ForeignDerived}),
      CachePack(FALSE, TRUE, "1.0", <<"k">>, <<PackEvent>>, {ForeignDerived}),
      CachePack(FALSE, TRUE, "1.0", <<"a", "a", "b", "a", "b">>, <<PackEvent>>, {}) }

\* A validation that looks for the manifest only, whatever its version.
manifest_rejected_if_missing(p) == ~p.manifest

\* import_memory's validation of the manifest: "Error: ..." is returned when
\* manifest.json is missing or its version is not "1.0".
manifest_rejected(p) == ~p.manifest \/ p.version # "1.0"

\* export_events: the entries written to events.jsonl, in id order; an entry
\* has a payload only if the row has one.
RECURSIVE export_events(_)
export_events(events) ==
    IF events = <<>> THEN <<>>
    ELSE <<[ts |-> Head(events).ts, actor |-> Head(events).actor,
            type |-> Head(events).type, payload |-> Head(events).payload_json]>>
         \o export_events(Tail(events))

\* ------------------------------------- the session memory store (store_sqlite)

Sessions == {"s1"}
Namespaces == {"n1", "n2"}
Texts == {"x", "y"}

TableNames == {"messages", "facts", "summaries", "events"}

\* messages_fts and facts_fts index one column of their content table.
FtsTables == {"messages", "facts"}

\* No messages_fts and facts_fts tables, and no triggers: ensure_fts was not
\* called on the database.  An FTS5 table keeps, next to its entries, the
\* number of rows it was given (docs) and the number of their tokens (size).
NoFts ==
    [present |-> FALSE, messages |-> {}, facts |-> {},
     docs |-> [t \in FtsTables |-> 0], size |-> [t \in FtsTables |-> 0]]
FtsColumn(table) == IF table = "messages" THEN "content" ELSE "fact_text"

\* What the index holds for a row: its rowid and the text it was indexed with.
FtsEntry(table, row) == [rowid |-> row.id, text |-> row[FtsColumn(table)]]

\* SCHEMA_SQL applied to a new file: empty tables, no AUTOINCREMENT id given yet.
EmptyStore ==
    [messages |-> {}, facts |-> {}, summaries |-> {}, events |-> {}, meta |-> {},
     seq |-> [t \in TableNames |-> 0], fts |-> NoFts]

MessageFields == {"session_id", "namespace", "role", "content", "ts", "metadata_json"}
FactFields ==
    {"session_id", "namespace", "fact_text", "ts", "importance", "tags_json", "supersedes_id"}
SummaryFields == {"session_id", "namespace", "summary_text", "ts", "scope"}
EventFields == {"ts", "type", "payload_json"}

\* The row an INSERT adds: the bound values and the next AUTOINCREMENT id.
WithId(values, id) ==
    [c \in DOMAIN values \cup {"id"} |-> IF c = "id" THEN id ELSE values[c]]

\* An INSERT that takes the place of the rows the table held.
InsertInPlace(store, table, values) ==
    [store EXCEPT ![table] = {WithId(values, store.seq[table] + 1)},
                  !.seq[table] = @ + 1]

MessageValues(session_id, namespace, role, content, ts) ==
    [session_id |-> session_id, namespace |-> namespace, role |-> role,
     content |-> content, ts |-> ts, metadata_json |-> {}]

FactValues(session_id, namespace, fact_text, ts, importance, supersedes_id) ==
    [session_id |-> session_id, namespace |-> namespace, fact_text |-> fact_text,
     ts |-> ts, importance |-> importance, tags_json |-> {},
     supersedes_id |-> supersedes_id]

SummaryValues(session_id, namespace, summary_text, ts, scope) ==
    [session_id |-> session_id, namespace |-> namespace,
     summary_text |-> summary_text, ts |-> ts, scope |-> scope]

EventValues(ts, type) == [ts |-> ts, type |-> type, payload_json |-> {}]

\* "if namespace:" and "if older_than_iso:" add a condition; an Optional that is
\* None, or a string that is empty, adds none.
PurgeMatches(row, namespace, older_than_iso) ==
    /\ \A n \in namespace : n = "" \/ row.namespace = n
    /\ \A t \in older_than_iso : row.ts < t

purge_rows(rows, namespace, older_than_iso) ==
    {r \in rows : ~PurgeMatches(r, namespace, older_than_iso)}

\* set_meta: INSERT OR REPLACE INTO meta, whose primary key is key.
set_meta(store, key, value) ==
    [store EXCEPT !.meta = {r \in @ : r.key # key} \cup {[key |-> key, value |-> value]}]

\* conn.commit() left out: what is committed stays as it was.
commit_skipped(committed, written) == committed

\* conn.commit(): what the connection has written is the committed content.
commit(committed, written) == written

\* What the connection reads: its uncommitted content if it has any.
Seen(committed, uncommitted) ==
    IF uncommitted = {} THEN committed ELSE CHOOSE s \in uncommitted : TRUE

\* The values of summaries.scope; "rolling" is upsert_summary's default.
Scopes == {"rolling", "final"}

\* WHERE session_id = ? AND namespace = ? AND scope = ?.
SummariesOf(summaries, session_id, namespace, scope) ==
    {r \in summaries : /\ r.session_id = session_id
                       /\ r.namespace = namespace
                       /\ r.scope = scope}

\* UPDATE summaries SET summary_text = ? WHERE id = ?.
update_summary_text_only(summaries, existing, summary_text, now) ==
    (summaries \ {existing}) \cup {[existing EXCEPT !.summary_text = summary_text]}

\* UPDATE summaries SET summary_text = ?, ts = ? WHERE id = ?.
update_summary(summaries, existing, summary_text, now) ==
    (summaries \ {existing})
    \cup {[existing EXCEPT !.summary_text = summary_text, !.ts = now]}

\* get_summary: ORDER BY id DESC LIMIT 1, fetchone(); None if no row matches.
get_summary(summaries, session_id, namespace, scope) ==
    LET matching == SummariesOf(summaries, session_id, namespace, scope)
    IN {r \in matching : \A o \in matching : o.id <= r.id}

\* ------------------------------------------- views and search (search_fts)

\* The default of get_facts' limit.
FactsLimit == 100

\* ORDER BY id DESC alone.
fact_before_by_id(f, g) == f.id > g.id

\* Whether a fact follows another in ORDER BY importance DESC, id DESC.
FactBefore(f, g) == f.importance > g.importance \/ (f.importance = g.importance /\ f.id > g.id)

RECURSIVE OrderFacts(_)
OrderFacts(rows) ==
    IF rows = {} THEN <<>>
    ELSE LET f == CHOOSE q \in rows : \A o \in rows \ {q} : FactBefore(q, o)
         IN <<f>> \o OrderFacts(rows \ {f})

\* WHERE session_id = ? AND namespace = ? AND supersedes_id IS NULL.
ActiveFacts(facts, session_id, namespace) ==
    {f \in facts : /\ f.session_id = session_id
                   /\ f.namespace = namespace
                   /\ f.supersedes_id = {}}

get_facts(facts, session_id, namespace, limit) ==
    LET rows == OrderFacts(ActiveFacts(facts, session_id, namespace))
    IN SubSeq(rows, 1, IF limit < 0 \/ Len(rows) < limit THEN Len(rows) ELSE limit)

\* ORDER BY id DESC of messages.
RECURSIVE OrderMessages(_)
OrderMessages(rows) ==
    IF rows = {} THEN <<>>
    ELSE LET m == CHOOSE q \in rows : \A o \in rows : o.id <= q.id
         IN <<m>> \o OrderMessages(rows \ {m})

\* The rows as fetchall() returned them.
as_fetched(rows) == rows

\* reversed(rows).
reversed(rows) == [i \in 1..Len(rows) |-> rows[Len(rows) + 1 - i]]

\* get_recent_messages: LIMIT ? with a negative value is no limit.
get_recent_messages(messages, session_id, namespace, limit) ==
    LET rows == OrderMessages({m \in messages : /\ m.session_id = session_id
                                                /\ m.namespace = namespace})
    IN reversed(SubSeq(rows, 1,
                       IF limit < 0 \/ Len(rows) < limit THEN Len(rows) ELSE limit))

get_fact_count(facts, session_id, namespace) ==
    Cardinality(ActiveFacts(facts, session_id, namespace))

\* The superseded rows of every namespace of the session.
superseded_any_namespace(facts, session_id, namespace) ==
    {f \in facts : f.session_id = session_id /\ f.supersedes_id # {}}

\* WHERE session_id = ? AND namespace = ? AND supersedes_id IS NOT NULL.
superseded(facts, session_id, namespace) ==
    {f \in facts : /\ f.session_id = session_id
                   /\ f.namespace = namespace
                   /\ f.supersedes_id # {}}

\* The texts that are stored and searched for, and their characters; any
\* other text of the model is not looked into and counts as one character.
SearchTexts == {"cat", "concat", "NOTE"}
Queries == {"cat", "NOTE"}

Chars(text) ==
    CASE text = "cat" -> <<"c", "a", "t">>
      [] text = "concat" -> <<"c", "o", "n", "c", "a", "t">>
      [] text = "NOTE" -> <<"N", "O", "T", "E">>
      [] OTHER -> <<text>>

UpperCase == <<"A", "B", "C", "D", "E", "F", "G", "H", "I", "J", "K", "L", "M", "N", "O", "P", "Q", "R", "S", "T", "U", "V", "W", "X", "Y", "Z">>
LowerCase == <<"a", "b", "c", "d", "e", "f", "g", "h", "i", "j", "k", "l", "m", "n", "o", "p", "q", "r", "s", "t", "u", "v", "w", "x", "y", "z">>

Lower(c) ==
    IF \E i \in DOMAIN UpperCase : UpperCase[i] = c
    THEN LowerCase[CHOOSE i \in DOMAIN UpperCase : UpperCase[i] = c]
    ELSE c

LowerAll(cs) == [i \in DOMAIN cs |-> Lower(cs[i])]

IsAt(cs, pat, i) == i + Len(pat) - 1 <= Len(cs) /\ SubSeq(cs, i, i + Len(pat) - 1) = pat

Occurs(cs, pat) == \E i \in 1..(Len(cs) + 1) : IsAt(cs, pat, i)

\* content LIKE '%query%': the query is a substring, letter case apart (a
\* query of the model holds neither % nor _).
like(text, query) == Occurs(LowerAll(Chars(text)), LowerAll(Chars(query)))

\* str.replace(pat, ""): the occurrences of pat, from the left, are cut out.
RECURSIVE Remove(_, _)
Remove(cs, pat) ==
    IF cs = <<>> THEN <<>>
    ELSE IF IsAt(cs, pat, 1) THEN Remove(SubSeq(cs, Len(pat) + 1, Len(cs)), pat)
    ELSE <<Head(cs)>> \o Remove(Tail(cs), pat)

\* The words between the separators seps; word is the one being read.
RECURSIVE SplitAt(_, _, _)
SplitAt(cs, seps, word) ==
    LET done == IF word = <<>> THEN <<>> ELSE <<word>>
    IN IF cs = <<>> THEN done
       ELSE IF Head(cs) \in seps THEN done \o SplitAt(Tail(cs), seps, <<>>)
       ELSE SplitAt(Tail(cs), seps, Append(word, Head(cs)))

Keep(c) == c \notin {"\"", "*", "(", ")"}

\* _escape_fts_query: the terms that are quoted and joined; <<>> is the query "".
escape_fts_query(query) ==
    LET cleaned == SelectSeq(query, Keep)
        words == Remove(Remove(Remove(cleaned, <<"A", "N", "D">>), <<"O", "R">>),
                        <<"N", "O", "T">>)
    IN SplitAt(words, {" "}, <<>>)

\* " ".join(f'"{t}"' for t in terms).
RECURSIVE JoinQuoted(_)
JoinQuoted(terms) ==
    IF terms = <<>> THEN <<>>
    ELSE <<"\"">> \o Head(terms) \o <<"\"">>
         \o (IF Tail(terms) = <<>> THEN <<>> ELSE <<" ">> \o JoinQuoted(Tail(terms)))

\* _escape_fts_query: the string it returns, '""' if no term is left.
escaped_query(query) ==
    IF escape_fts_query(query) = <<>> THEN <<"\"", "\"">>
    ELSE JoinQuoted(escape_fts_query(query))

\* The unicode61 tokenizer of FTS5: letters and digits between separators,
\* in lower case.
Tokens(cs) == SplitAt(LowerAll(cs), {" ", "\"", "*", "(", ")"}, <<>>)

\* The tokens the index counts for a row's text.
TokenCount(text) == Len(Tokens(Chars(text)))

RECURSIVE SumTokens(_, _)
SumTokens(rows, column) ==
    IF rows = {} THEN 0
    ELSE LET r == CHOOSE q \in rows : TRUE
         IN TokenCount(r[column]) + SumTokens(rows \ {r}, column)

\* INSERT INTO table; the AFTER INSERT trigger, if ensure_fts created it, adds
\* the row to the index.
Insert(store, table, values) ==
    LET row == WithId(values, store.seq[table] + 1)
        inserted == [store EXCEPT ![table] = @ \cup {row}, !.seq[table] = @ + 1]
    IN IF store.fts.present /\ table \in FtsTables
       THEN [inserted EXCEPT !.fts[table] = @ \cup {FtsEntry(table, row)},
                             !.fts.docs[table] = @ + 1,
                             !.fts.size[table] = @ + TokenCount(row[FtsColumn(table)])]
       ELSE inserted

\* DELETE FROM table of the rows doomed, with no trigger on the table.
delete_base_rows_only(store, table, doomed) == [store EXCEPT ![table] = @ \ doomed]

\* The AFTER DELETE trigger gives the index the 'delete' command with old.id
\* and the old text, for a content table it cannot look the row up in: FTS5
\* takes one row and the text's tokens off its counts, and fails with
\* SQLITE_CORRUPT ("database disk image is malformed") when a count has not
\* that many left, which is the case for rows the index was never given.  The
\* statement is then undone and raises sqlite3.DatabaseError.
delete_raises(store, table, doomed) ==
    /\ store.fts.present
    /\ table \in FtsTables
    /\ \/ store.fts.docs[table] < Cardinality(doomed)
       \/ store.fts.size[table] < SumTokens(doomed, FtsColumn(table))

\* DELETE FROM table of the rows doomed; the AFTER DELETE trigger, if
\* ensure_fts created it, takes old.id with the old text out of the index.
Delete(store, table, doomed) ==
    LET deleted == [store EXCEPT ![table] = @ \ doomed]
    IN IF delete_raises(store, table, doomed) THEN store
       ELSE IF store.fts.present /\ table \in FtsTables
       THEN [deleted EXCEPT
               !.fts[table] = @ \ {FtsEntry(table, r) : r \in doomed},
               !.fts.docs[table] = @ - Cardinality(doomed),
               !.fts.size[table] = @ - SumTokens(doomed, FtsColumn(table))]
       ELSE deleted

\* column MATCH '"t1" "t2" ...': every quoted term is a phrase of the text.
fts_match(text, terms) ==
    /\ terms # <<>>
    /\ \A i \in DOMAIN terms :
          /\ Tokens(terms[i]) # <<>>
          /\ Occurs(Tokens(Chars(text)), Tokens(terms[i]))

\* The rows the searches select (limit is above the rows a table of the model
\* holds; the order of the list is left out).
fts_search_messages(store, session_id, namespace, query) ==
    {m \in store.messages :
        /\ m.session_id = session_id /\ m.namespace = namespace
        /\ \E e \in store.fts.messages :
              e.rowid = m.id /\ fts_match(e.text, escape_fts_query(Chars(query)))}

like_search_messages(store, session_id, namespace, query) ==
    {m \in store.messages :
        /\ m.session_id = session_id /\ m.namespace = namespace
        /\ like(m.content, query)}

fts_search_facts(store, session_id, namespace, query) ==
    {f \in ActiveFacts(store.facts, session_id, namespace) :
        \E e \in store.fts.facts :
            e.rowid = f.id /\ fts_match(e.text, escape_fts_query(Chars(query)))}

like_search_facts(store, session_id, namespace, query) ==
    {f \in ActiveFacts(store.facts, session_id, namespace) : like(f.fact_text, query)}

\* _has_fts_table: ensure_fts created the table.
search_messages(store, session_id, namespace, query, use_fts) ==
    IF use_fts /\ store.fts.present
    THEN fts_search_messages(store, session_id, namespace, query)
    ELSE like_search_messages(store, session_id, namespace, query)

search_facts(store, session_id, namespace, query, use_fts) ==
    IF use_fts /\ store.fts.present
    THEN fts_search_facts(store, session_id, namespace, query)
    ELSE like_search_facts(store, session_id, namespace, query)

\* ------------------------------------------------------- redaction (redact)

PLACEHOLDER == <<"[", "R", "E", "D", "A", "C", "T", "E", "D", "]">>

\* The character classes of the built-in patterns.
Digits == {"0", "1", "2", "3", "4", "5", "6", "7", "8", "9"}
Alnum == {UpperCase[i] : i \in DOMAIN UpperCase} \cup {LowerCase[i] : i \in DOMAIN LowerCase}
             \cup Digits
\* \s and \S, over the characters a text of the model is made of
Whitespace == {" ", "\t", "\n"}
Punctuation == {":", "=", "-", ".", "_", "~", "+", "/", "'", "\"", "[", "]", "!", "(", ")"}
NonSpace == Alnum \cup Punctuation
\* [A-Za-z0-9\-._~+/]
UrlSafe == Alnum \cup {"-", ".", "_", "~", "+", "/"}
\* [A-Za-z0-9\-]
KeyChars == Alnum \cup {"-"}
\* \w
Word == Alnum \cup {"_"}
Quotes == {"'", "\""}

\* The quantifiers {16,} and {20,} of the patterns.
ApiKeyMin == 16
SkMin == 20
CodeMin == 16
TokenMin == 20

\* The literals of the patterns, in lower case where the pattern is compiled
\* with re.IGNORECASE.
LitAuthorization == <<"a", "u", "t", "h", "o", "r", "i", "z", "a", "t", "i", "o", "n", ":">>
LitBearer == <<"b", "e", "a", "r", "e", "r">>
LitBasic == <<"b", "a", "s", "i", "c">>
LitApiKeys == {<<"a", "p", "i", "_", "k", "e", "y">>, <<"a", "p", "i", "-", "k", "e", "y">>, <<"a", "p", "i", "k", "e", "y">>,
               <<"a", "p", "i", "_", "s", "e", "c", "r", "e", "t">>, <<"s", "e", "c", "r", "e", "t", "_", "k", "e", "y">>}
LitSk == <<"s", "k", "-">>
LitCode == <<"c", "o", "d", "e", "=">>
LitTokens == {<<"t", "o", "k", "e", "n">>, <<"s", "e", "c", "r", "e", "t">>, <<"p", "a", "s", "s", "w", "o", "r", "d">>, <<"c", "r", "e", "d", "e", "n", "t", "i", "a", "l">>}

\* Matching steps: each takes the position i the step starts at and gives the
\* position after what it consumed, 0 when it fails (or when i is 0 already).
Lit(cs, i, lit) == IF i > 0 /\ IsAt(cs, lit, i) THEN i + Len(lit) ELSE 0

\* (?:a|b|...): no literal of a set is a prefix of another one.
AnyLit(cs, i, lits) ==
    LET ms == {l \in lits : i > 0 /\ IsAt(cs, l, i)}
    IN IF ms = {} THEN 0 ELSE i + Len(CHOOSE l \in ms : TRUE)

\* c*: greedy; what follows in the patterns never begins with a character of c.
RECURSIVE RunEnd(_, _, _)
RunEnd(cs, i, class) ==
    IF i >= 1 /\ i <= Len(cs) /\ cs[i] \in class THEN RunEnd(cs, i + 1, class) ELSE i

\* c{min,}
Many(cs, i, class, min) ==
    LET e == RunEnd(cs, i, class) IN IF i > 0 /\ e - i >= min THEN e ELSE 0

\* c?
Opt(cs, i, class) == IF i > 0 /\ i <= Len(cs) /\ cs[i] \in class THEN i + 1 ELSE i

\* \b at position k: between cs[k-1] and cs[k] exactly one is a word character.
Boundary(cs, k) ==
    (k > 1 /\ k - 1 <= Len(cs) /\ cs[k - 1] \in Word) # (k >= 1 /\ k <= Len(cs) /\ cs[k] \in Word)

NoMatch == [end |-> 0, keep |-> 0]
\* A match from i up to end (exclusive) whose group(1) stops before g1.
Matched(i, g1, end) == IF end > 0 THEN [end |-> end, keep |-> g1 - i] ELSE NoMatch

\* (Authorization:\s*)(Bearer\s+)\S+ and the same with Basic
MatchAuthorization(low, i, scheme) ==
    LET g1 == RunEnd(low, Lit(low, i, LitAuthorization), Whitespace)
        g2 == Many(low, Lit(low, g1, scheme), Whitespace, 1)
    IN Matched(i, g1, Many(low, g2, NonSpace, 1))

\* (bearer\s+)[A-Za-z0-9\-._~+/]+=*
MatchBearer(low, i) ==
    LET g1 == Many(low, Lit(low, i, LitBearer), Whitespace, 1)
    IN Matched(i, g1, RunEnd(low, Many(low, g1, UrlSafe, 1), {"="}))

\* (name\s*[:=]\s*)['"]?[A-Za-z0-9\-._~+/]{min,}['"]?
MatchAssignment(low, i, names, plural, min) ==
    LET name == Opt(low, AnyLit(low, i, names), plural)
        sep == RunEnd(low, name, Whitespace)
        g1 == IF sep > 0 /\ sep <= Len(low) /\ low[sep] \in {":", "="}
              THEN RunEnd(low, sep + 1, Whitespace) ELSE 0
    IN Matched(i, g1, Opt(low, Many(low, Opt(low, g1, Quotes), UrlSafe, min), Quotes))

\* \b(sk-[A-Za-z0-9\-]{20,})\b: the whole match is group(1); the run gives
\* characters back until a word boundary follows it.
MatchSk(cs, i) ==
    LET from == IF Boundary(cs, i) THEN Lit(cs, i, LitSk) ELSE 0
        ends == {e \in (from + SkMin)..RunEnd(cs, from, KeyChars) : from > 0 /\ Boundary(cs, e)}
        end == IF ends = {} THEN 0 ELSE CHOOSE e \in ends : \A f \in ends : f <= e
    IN Matched(i, end, end)

\* (code=)[A-Za-z0-9\-._~+/]{16,}
MatchCode(low, i) ==
    LET g1 == Lit(low, i, LitCode) IN Matched(i, g1, Many(low, g1, UrlSafe, CodeMin))

\* _BUILTIN_PATTERNS, in the order of the list; cs is the text and low the
\* text in lower case, which the patterns compiled with IGNORECASE are run on.
NumBuiltins == 7
Match(k, cs, low, i) ==
    CASE k = 1 -> MatchAuthorization(low, i, LitBearer)
      [] k = 2 -> MatchAuthorization(low, i, LitBasic)
      [] k = 3 -> MatchBearer(low, i)
      [] k = 4 -> MatchAssignment(low, i, LitApiKeys, {}, ApiKeyMin)
      [] k = 5 -> MatchSk(cs, i)
      [] k = 6 -> MatchCode(low, i)
      [] k = 7 -> MatchAssignment(low, i, LitTokens, {"s"}, TokenMin)

\* lambda m: m.group(0)[:len(m.group(1))] + PLACEHOLDER
keep_group1(cs, i, m) == SubSeq(cs, i, i + m.keep - 1) \o PLACEHOLDER

\* pattern.sub(repl, result): the matches from the left, none overlapping.
RECURSIVE SubFrom(_, _, _, _)
SubFrom(k, cs, low, i) ==
    IF i > Len(cs) THEN <<>>
    ELSE LET m == Match(k, cs, low, i)
         IN IF m.end > 0 THEN keep_group1(cs, i, m) \o SubFrom(k, cs, low, m.end)
            ELSE <<cs[i]>> \o SubFrom(k, cs, low, i + 1)

pattern_sub(k, cs) == SubFrom(k, cs, LowerAll(cs), 1)

RECURSIVE ApplyBuiltins(_, _)
ApplyBuiltins(cs, k) ==
    IF k > NumBuiltins THEN cs ELSE ApplyBuiltins(pattern_sub(k, cs), k + 1)

\* A denylist entry of the model is a word, which as a regular expression
\* matches itself, or "(", which re.compile rejects and _compile_denylist skips.
Invalid(pattern_str) == pattern_str = <<"(">>

RECURSIVE DenySub(_, _, _, _)
DenySub(cs, low, pat, i) ==
    IF i > Len(cs) THEN <<>>
    ELSE IF IsAt(low, pat, i) THEN PLACEHOLDER \o DenySub(cs, low, pat, i + Len(pat))
    ELSE <<cs[i]>> \o DenySub(cs, low, pat, i + 1)

RECURSIVE ApplyDenylist(_, _)
ApplyDenylist(cs, denylist) ==
    IF denylist = <<>> THEN cs
    ELSE LET pat == Head(denylist)
             out == IF Invalid(pat) THEN cs ELSE DenySub(cs, LowerAll(cs), LowerAll(pat), 1)
         IN ApplyDenylist(out, Tail(denylist))

redact(text, denylist) ==
    IF text = <<>> THEN text ELSE ApplyDenylist(ApplyBuiltins(text, 1), denylist)

\* ------------------------------------------------------ the pack codec (packs)

\* The rows of a set, ordered by id.
RECURSIVE OrderById(_)
OrderById(rows) ==
    IF rows = {} THEN <<>>
    ELSE LET r == CHOOSE q \in rows : \A o \in rows : q.id <= o.id
         IN <<r>> \o OrderById(rows \ {r})

\* _sha256_file: the digest of a file's content.
sha256_file(content) == content

\* SELECT * FROM table [WHERE namespace IN (...)] ORDER BY id, one
\* json.dumps(dict(row)) per line.  namespaces is an Optional list.
export_jsonl(rows, namespaces) ==
    OrderById({r \in rows : \A ns \in namespaces : r.namespace \in ns})

count(rows, namespaces) ==
    Cardinality({r \in rows : \A ns \in namespaces : r.namespace \in ns})

DataFiles == {"messages.jsonl", "facts.jsonl", "summaries.jsonl", "events.jsonl"}

NoPack == [exists |-> FALSE, files |-> <<>>]

Has(pk, name) == pk.exists /\ name \in DOMAIN pk.files

\* The files export_pack writes into pack_dir, over whatever the directory held.
ExportedFiles(store, namespaces, now) ==
    LET data == [n \in {"messages.jsonl", "facts.jsonl", "summaries.jsonl"} |->
                    CASE n = "messages.jsonl" -> export_jsonl(store.messages, namespaces)
                      [] n = "facts.jsonl" -> export_jsonl(store.facts, namespaces)
                      [] OTHER -> export_jsonl(store.summaries, namespaces)]
        events == IF Cardinality(store.events) > 0
                  THEN [n \in {"events.jsonl"} |-> OrderById(store.events)]
                  ELSE <<>>
        manifest == [version |-> "1.0", type |-> "session_memory", created_at |-> now,
                     namespaces |-> namespaces,
                     counts |-> [messages |-> count(store.messages, namespaces),
                                 facts |-> count(store.facts, namespaces),
                                 summaries |-> count(store.summaries, namespaces)]]
        listed == [n \in {"manifest.json"} |-> manifest] @@ events @@ data
    IN [n \in {"checksums.json"} |-> [f \in DOMAIN listed |-> sha256_file(listed[f])]]
       @@ listed

\* A checksum loop that compares the digest of the manifest only.
checksum_mismatch_manifest_only(pk) ==
    /\ Has(pk, "checksums.json")
    /\ Has(pk, "manifest.json")
    /\ "manifest.json" \in DOMAIN pk.files["checksums.json"]
    /\ sha256_file(pk.files["manifest.json"]) # pk.files["checksums.json"]["manifest.json"]

\* A removal that leaves the directory where it is.
rmtree_skipped(dir) == dir

\* shutil.rmtree(dir): the directory and its files are gone.
rmtree(dir) == NoPack

\* The checksum loop of import_pack: a listed file that exists and whose digest
\* differs from the listed one.
checksum_mismatch(pk) ==
    /\ Has(pk, "checksums.json")
    /\ \E filename \in DOMAIN pk.files["checksums.json"] :
          /\ Has(pk, filename)
          /\ sha256_file(pk.files[filename]) # pk.files["checksums.json"][filename]

\* _import_jsonl: one INSERT per line, binding record.get(field) for the
\* fields of the statement (the line's id is not among them); 0 rows if the
\* file does not exist.
Pick(record, fields) ==
    [c \in fields |-> IF c \in DOMAIN record THEN record[c] ELSE Null]

\* The NOT NULL columns of SCHEMA_SQL, id apart.
NotNull(table) ==
    CASE table = "messages" -> {"session_id", "namespace", "role", "content", "ts"}
      [] table = "facts" -> {"session_id", "namespace", "fact_text", "ts"}
      [] table = "summaries" -> {"session_id", "namespace", "summary_text", "ts"}
      [] OTHER -> {"ts", "type"}

\* conn.execute(insert_sql, values) raises sqlite3.IntegrityError: record.get
\* gave None for a NOT NULL column.
insert_raises(record, table) == \E c \in NotNull(table) : c \notin DOMAIN record

RECURSIVE InsertLines(_, _, _, _)
InsertLines(store, table, lines, fields) ==
    IF lines = <<>> THEN store
    ELSE InsertLines(Insert(store, table, Pick(Head(lines), fields)), table,
                     Tail(lines), fields)

Lines(pk, name) == IF Has(pk, name) THEN pk.files[name] ELSE <<>>

import_jsonl(store, table, pk, name, fields) ==
    InsertLines(store, table, Lines(pk, name), fields)

\* _import_jsonl raises at a line whose INSERT fails, before its conn.commit():
\* the rows of the lines before it stay in the connection's open transaction.
import_jsonl_raises(pk, name, table) ==
    \E i \in DOMAIN Lines(pk, name) : insert_raises(Lines(pk, name)[i], table)

\* One _import_jsonl call of import_pack on at = [store, raised]: not reached
\* once a call has raised; what it commits otherwise.
ImportStep(at, table, pk, name, fields) ==
    IF at.raised THEN at
    ELSE IF import_jsonl_raises(pk, name, table) THEN [at EXCEPT !.raised = TRUE]
    ELSE [at EXCEPT !.store = import_jsonl(@, table, pk, name, fields)]

ImportSteps(store, pk) ==
    LET s0 == [store |-> store, raised |-> FALSE]
        s1 == ImportStep(s0, "messages", pk, "messages.jsonl", MessageFields)
        s2 == ImportStep(s1, "facts", pk, "facts.jsonl", FactFields)
        s3 == ImportStep(s2, "summaries", pk, "summaries.jsonl", SummaryFields)
    IN ImportStep(s3, "events", pk, "events.jsonl", EventFields)

\* The four _import_jsonl calls of import_pack, in order: the committed store.
import_tables(store, pk) == ImportSteps(store, pk).store

\* One of the four calls raised.
import_tables_raises(pk) == ImportSteps(EmptyStore, pk).raised

\* How import_pack ends on a pack: the exception it raises, or "ok".
import_outcome(pk) ==
    CASE ~pk.exists -> "not_found"
      [] ~Has(pk, "manifest.json") -> "no_manifest"
      [] pk.files["manifest.json"].version # "1.0" -> "bad_version"
      [] checksum_mismatch(pk) -> "checksum_mismatch"
      [] OTHER -> "ok"

\* What someone with access to the pack directory may turn a data file into:
\* its lines with the text of the first one altered, or without the last one.
Altered(name, line) ==
    CASE name = "messages.jsonl" -> [line EXCEPT !.content = "evil"]
      [] name = "facts.jsonl" -> [line EXCEPT !.fact_text = "evil"]
      [] name = "summaries.jsonl" -> [line EXCEPT !.summary_text = "evil"]
      [] OTHER -> [line EXCEPT !.type = "evil"]

\* A line without the text column of its table.
RequiredText(name) ==
    CASE name = "messages.jsonl" -> "content"
      [] name = "facts.jsonl" -> "fact_text"
      [] name = "summaries.jsonl" -> "summary_text"
      [] OTHER -> "type"

Malformed(name, line) == [c \in DOMAIN line \ {RequiredText(name)} |-> line[c]]

Tamperings(name, lines) ==
    IF lines = <<>> THEN {}
    ELSE {[lines EXCEPT ![1] = Altered(name, lines[1])], SubSeq(lines, 1, Len(lines) - 1)}
         \ {lines}

\* ----------------------------------------------------------------- the state

VARIABLES
    files,      \* .ai/state/*.yaml: name -> [exists, bytes]
    edits,      \* edits made so far
    ops,        \* commands run so far
    clock,      \* the wall clock: the next value datetime.now() returns
    db,         \* .ai_runtime/ai.db, committed content
    import_tmp, \* whether .ai_runtime/memory_pack_cache/import_tmp exists
    pc,         \* where the running call stands ("idle": none runs)
    caller,     \* the operation that called the running reconcile, or "none"
    curHash,    \* reconcile's current_hash
    state,      \* reconcile's state: the loaded documents
    pre,        \* db as the running (or last) reconcile call found it
    ret,        \* how the last reconcile call ended: none, running, false, true,
                \* load_error (load_canonical raised), ingest_error (an ingest_* raised)
    dirty,      \* whether a canonical file was edited since reconcile last hashed them
    imp,        \* import_memory's locals: [imported_count, derived_imported]
    seen,       \* what a reader on its own connection last read during the call
    mem,        \* .ai_runtime/session/memory.db, committed content
    pack,       \* the pack directory: [exists, files: name -> content]
    exported,   \* the pack as export_pack left it, and the tables it was made from
    memPre,     \* mem as the last import_pack call found it
    impRet,     \* how the last import_pack call ended ("none": no call yet)
    fs,         \* the archives exports wrote and the directories they staged them in
    rowcount,   \* what the last delete_superseded_facts call returned
    red,        \* the last redact call: its text, in parts, its denylist and its results;
                \* passed: the texts redact has returned so far
    race,       \* processes that call connect_db on one database file of their own:
                \* the file, the tables of its schema in the order of their
                \* creation, and where each process stands
    last,       \* the last call of the store whose result is kept: its name and
                \* what it returned
    pending     \* the content of memory.db as the writing connection sees it while
                \* it holds changes it has not committed; {} if it holds none

envVars == <<files, edits, ops>>
callVars == <<curHash, state, pre>>
cacheVars == <<files, edits, ops, clock, db, import_tmp, pc, caller, curHash, state, pre, ret,
               dirty, imp, seen>>

cacheOnly == <<files, edits, ops, db, import_tmp, pc, caller, curHash, state, pre, ret,
               dirty, imp, seen>>
memVars == <<mem, pack, exported, memPre, impRet, rowcount>>

auxVars == <<red, race, last, pending>>

vars == <<cacheVars, memVars, fs, auxVars>>

\* What a status query reads.
View(d) ==
    [workers |-> d.workers, tasks |-> d.tasks, approvals |-> d.approvals,
     canonical_hash |-> get_snapshot(d.snapshots, "canonical_hash")]

NoView == {}
NoImp == [imported_count |-> 0, derived_imported |-> FALSE]

\* The canonical documents as they are checked in.
CommittedFiles ==
    [team |-> File(<<"a", "b">>), board |-> File(<<"a", "b">>),
     approvals |-> File(<<"a">>), commands |-> File(<<>>)]

CacheInit ==
    /\ files = CommittedFiles
    /\ edits = 0
    /\ ops = 0
    /\ clock = 1
    /\ db = NoDb
    /\ import_tmp = FALSE
    /\ pc = "idle"
    /\ caller = "none"
    /\ curHash = <<>>
    /\ state = NoState
    /\ pre = NoDb
    /\ ret = "none"
    /\ dirty = FALSE
    /\ imp = NoImp
    /\ seen = NoView

NoExport == [files |-> <<>>, source |-> EmptyStore, namespaces |-> {}]

MemInit ==
    /\ mem = EmptyStore
    /\ pack = NoPack
    /\ exported = NoExport
    /\ memPre = EmptyStore
    /\ impRet = "none"
    /\ rowcount = 0

NoCacheArchive == [exists |-> FALSE, pack |-> CachePack(TRUE, FALSE, "", <<>>, <<>>, {})]

FsInit ==
    fs = [archive |-> NoPack, staging |-> NoPack,
          cache_archive |-> NoCacheArchive, cache_staging |-> FALSE]

\* The texts redact is called with: a secret value after the prefix that
\* introduces it, with or without text around them.
Rep(c, n) == [i \in 1..n |-> c]
HeaderBearer == <<"A", "u", "t", "h", "o", "r", "i", "z", "a", "t", "i", "o", "n", ":", " ", "B", "e", "a", "r", "e", "r", " ">>
SecretPrefixes ==
    {HeaderBearer, <<"A", "u", "t", "h", "o", "r", "i", "z", "a", "t", "i", "o", "n", ":", " ", "B", "a", "s", "i", "c", " ">>, <<"b", "e", "a", "r", "e", "r", " ">>, <<"a", "p", "i", "_", "k", "e", "y", "=">>,
     <<"s", "k", "-">>, <<"c", "o", "d", "e", "=">>, <<"t", "o", "k", "e", "n", ":", " ">>}
SecretValues == {<<"a", "b", "c", "1", "2", "3">>, <<"x", "y", "z", "7", "8", "9">>, Rep("a", SkMin), Rep("b", SkMin)}
TextsBefore == {<<>>, <<"x", " ">>}
TextsAfter == {<<>>, <<" ", "o", "k">>}
Denylists == {<<>>, <<<<"o", "k">>>>, <<<<"(">>>>}

Join(parts) == parts.before \o parts.prefix \o parts.value \o parts.after

NoCall == [parts |-> [before |-> <<>>, prefix |-> <<>>, value |-> <<>>, after |-> <<>>],
           denylist |-> <<>>, calls |-> 0, first |-> <<>>, result |-> <<>>,
           passed |-> {}]

RedactInit == red = NoCall

\* The processes that race to create the database, and the calls each makes.
Procs == {"p1", "p2"}
MaxCalls == 2

RaceInit ==
    race = [exists |-> FALSE, schema |-> <<>>,
            pc |-> [p \in Procs |-> "start"],
            next |-> [p \in Procs |-> 1],
            calls |-> [p \in Procs |-> 1]]

\* What is kept of a call: its name, and the value it returned or the error it
\* raised.
Returns(call, value) == [call |-> call, returned |-> value, raised |-> ""]
Raises(call, error) == [call |-> call, returned |-> 0, raised |-> error]

NoResult == Returns("none", 0)

LastInit == last = NoResult

PendingInit == pending = {}

Init == CacheInit /\ MemInit /\ FsInit /\ RedactInit /\ RaceInit /\ LastInit /\ PendingInit

\* ------------------------------------------------------------ the environment

\* An external editor rewrites or deletes one canonical file.  A running call
\* reads the files when it hashes and when it loads, and never after.
edit_file ==
    /\ edits < MaxEdits
    /\ pc \in {"idle", "call", "load"}
    /\ \E n \in CanonicalNames :
         \E f \in {File(c) : c \in Contents} \cup {Absent} :
            /\ f # files[n]
            /\ files' = [files EXCEPT ![n] = f]
    /\ edits' = edits + 1
    /\ dirty' = TRUE
    /\ UNCHANGED <<ops, clock, db, import_tmp, pc, caller, callVars, ret, imp, seen, memVars, fs, auxVars>>

\* A status query on a connection of its own, while a reconcile call runs.
reader_query ==
    /\ pc \in {"team", "board", "approvals", "hash", "ts", "event"}
    /\ seen' = {View(db)}
    /\ UNCHANGED <<envVars, clock, db, import_tmp, pc, caller, callVars, ret, dirty, imp, memVars, fs, auxVars>>

\* ------------------------------------------------------------------ reconcile

\* Where control goes when the running reconcile returns to its caller.
AfterReturn == IF caller = "import_memory" THEN "import_event" ELSE "idle"

\* connect_db, compute_canonical_hash, get_snapshot and the comparison; the
\* call returns False here when the hashes agree.  pc = "idle": a command
\* (status, git-sync) calls reconcile; pc = "call": import_memory or
\* handle_rehydrate_db does.
reconcile_begin ==
    /\ \/ pc = "idle" /\ ops < MaxOps /\ ops' = ops + 1
       \/ pc = "call" /\ ops' = ops
    /\ LET d == connect_db(db)
           h == compute_canonical_hash(files)
       IN /\ db' = d
          /\ pre' = d
          /\ curHash' = h
          /\ IF hash_unchanged(get_snapshot(d.snapshots, "canonical_hash"), h)
             THEN /\ pc' = AfterReturn
                  /\ ret' = "false"
                  /\ caller' = IF pc' = "idle" THEN "none" ELSE caller
             ELSE /\ pc' = "load"
                  /\ ret' = "running"
                  /\ caller' = caller
    /\ state' = NoState
    /\ seen' = NoView
    /\ dirty' = FALSE
    /\ UNCHANGED <<files, edits, clock, import_tmp, imp, memVars, fs, auxVars>>

\* An exception leaves reconcile and its caller: neither handles it.
Raise(error) ==
    /\ pc' = "idle"
    /\ ret' = error
    /\ caller' = "none"

reconcile_load ==
    /\ pc = "load"
    /\ IF load_canonical_raises(files)
       THEN /\ Raise("load_error")
            /\ state' = NoState
       ELSE /\ pc' = "team"
            /\ state' = load_canonical(files)
            /\ UNCHANGED <<ret, caller>>
    /\ UNCHANGED <<envVars, clock, db, import_tmp, curHash, pre, imp, seen, dirty, memVars, fs, auxVars>>

reconcile_ingest_team ==
    /\ pc = "team"
    /\ IF ingest_team_raises(state.team)
       THEN /\ Raise("ingest_error")
            /\ db' = db
       ELSE /\ pc' = "board"
            /\ db' = [db EXCEPT !.workers = ingest_team(db.workers, state.team)]
            /\ UNCHANGED <<ret, caller>>
    /\ UNCHANGED <<envVars, clock, import_tmp, callVars, imp, seen, dirty, memVars, fs, auxVars>>

reconcile_ingest_board ==
    /\ pc = "board"
    /\ IF ingest_board_raises(state.board)
       THEN /\ Raise("ingest_error")
            /\ db' = db
            /\ clock' = clock
       ELSE /\ pc' = "approvals"
            /\ db' = [db EXCEPT !.tasks = ingest_board(db.tasks, state.board, clock)]
            /\ clock' = clock + 1
            /\ UNCHANGED <<ret, caller>>
    /\ UNCHANGED <<envVars, import_tmp, callVars, imp, seen, dirty, memVars, fs, auxVars>>

reconcile_ingest_approvals ==
    /\ pc = "approvals"
    /\ IF ingest_approvals_raises(state.approvals)
       THEN /\ Raise("ingest_error")
            /\ db' = db
       ELSE /\ pc' = "hash"
            /\ db' = [db EXCEPT
                        !.approvals = ingest_approvals(db.approvals, db.seq_approvals,
                                                       state.approvals),
                        !.seq_approvals = db.seq_approvals + Len(state.approvals)]
            /\ UNCHANGED <<ret, caller>>
    /\ UNCHANGED <<envVars, clock, import_tmp, callVars, imp, seen, dirty, memVars, fs, auxVars>>

reconcile_set_hash ==
    /\ pc = "hash"
    /\ pc' = "ts"
    /\ db' = [db EXCEPT !.snapshots = set_snapshot(db.snapshots, "canonical_hash", curHash)]
    /\ UNCHANGED <<envVars, clock, import_tmp, caller, callVars, ret, imp, seen, dirty, memVars, fs, auxVars>>

reconcile_set_ts ==
    /\ pc = "ts"
    /\ pc' = "event"
    /\ db' = [db EXCEPT !.snapshots = set_snapshot(db.snapshots, "last_ingested_ts", clock)]
    /\ clock' = clock + 1
    /\ UNCHANGED <<envVars, import_tmp, caller, callVars, ret, imp, seen, dirty, memVars, fs, auxVars>>

\* add_event, conn.close(), return True.
reconcile_add_event ==
    /\ pc = "event"
    /\ pc' = AfterReturn
    /\ ret' = "true"
    /\ caller' = IF pc' = "idle" THEN "none" ELSE caller
    /\ db' = [db EXCEPT !.events = add_event(db.events, clock, "system", "reconcile",
                                             {[hash |-> curHash]})]
    /\ clock' = clock + 1
    /\ UNCHANGED <<envVars, import_tmp, callVars, imp, seen, dirty, memVars, fs, auxVars>>

\* -------------------------------------------------------------- import_memory

\* From the archive's extraction to the comparison of the pack's hash: an error
\* string is returned for a pack without manifest or of another version;
\* otherwise the pack's events are appended and committed, and reconcile is
\* called next.
import_memory_from(p) ==
    /\ pc = "idle"
    /\ ops < MaxOps
    /\ ops' = ops + 1
    /\ import_tmp' = (import_tmp \/ p.zip)
    /\ IF manifest_rejected(p)
       THEN /\ UNCHANGED <<db, pc, caller, imp>>
       ELSE /\ db' = [connect_db(db) EXCEPT !.events = import_events(@, p.events)]
            /\ imp' = [imported_count |-> Len(p.events),
                       derived_imported |->
                           (/\ p.derived_state # {}
                            /\ p.canonical_hash = compute_canonical_hash(files))]
            /\ pc' = "call"
            /\ caller' = "import_memory"
    /\ ret' = "none"
    /\ seen' = NoView
    /\ UNCHANGED <<files, edits, clock, callVars, dirty, memVars, fs, auxVars>>

import_memory_begin == \E p \in CachePacks : import_memory_from(p)

\* After reconcile returned: the import_memory event, conn.close(), and the
\* removal of the extraction directory.
import_memory_finish ==
    /\ pc = "import_event"
    /\ db' = [db EXCEPT !.events =
                add_event(db.events, clock, "system", "import_memory",
                          {[events_imported |-> imp.imported_count,
                            derived_imported |-> imp.derived_imported]})]
    /\ clock' = clock + 1
    /\ import_tmp' = FALSE
    /\ pc' = "idle"
    /\ caller' = "none"
    /\ ret' = "none"
    /\ imp' = NoImp
    /\ UNCHANGED <<envVars, callVars, seen, dirty,
                   memVars, fs, auxVars>>

\* ------------------------------------------------------- handle_rehydrate_db

\* A rebuild that leaves the database file in place.
rehydrate_keep_file ==
    /\ pc = "idle"
    /\ ops < MaxOps
    /\ ops' = ops + 1
    /\ db' = create_db(db)
    /\ pc' = "call"
    /\ caller' = "rehydrate"
    /\ ret' = "none"
    /\ seen' = NoView
    /\ UNCHANGED <<files, edits, clock, import_tmp, callVars, imp, dirty, memVars, fs, auxVars>>

\* db_path.unlink() if the file exists, create_db; reconcile is called next.
rehydrate_begin ==
    /\ pc = "idle"
    /\ ops < MaxOps
    /\ ops' = ops + 1
    /\ db' = create_db(NoDb)
    /\ pc' = "call"
    /\ caller' = "rehydrate"
    /\ ret' = "none"
    /\ seen' = NoView
    /\ UNCHANGED <<files, edits, clock, import_tmp, callVars, imp, dirty, memVars, fs, auxVars>>

\* An editor deletes a canonical file and appends its bytes to the file that
\* precedes it in the sorted order of the names.
Preceding(n) ==
    CASE n = "board" -> "approvals" [] n = "commands" -> "board" [] n = "team" -> "commands"

delete_into_neighbour ==
    /\ edits < MaxEdits
    /\ pc = "idle"
    /\ \E n \in {"board", "commands", "team"} :
          /\ files[n].exists
          /\ files[n].bytes # <<>>
          /\ files' = [files EXCEPT ![n] = Absent,
                                    ![Preceding(n)] = File(Bytes(@) \o files[n].bytes)]
    /\ edits' = edits + 1
    /\ dirty' = TRUE
    /\ UNCHANGED <<ops, clock, db, import_tmp, pc, caller, callVars, ret, imp, seen, memVars, fs, auxVars>>

import_derived_begin == \E p \in DerivedPacks : import_memory_from(p)

Next ==
    \/ edit_file
    \/ reader_query
    \/ reconcile_begin
    \/ reconcile_load
    \/ reconcile_ingest_team
    \/ reconcile_ingest_board
    \/ reconcile_ingest_approvals
    \/ reconcile_set_hash
    \/ reconcile_set_ts
    \/ reconcile_add_event
    \/ import_memory_begin
    \/ import_memory_finish
    \/ rehydrate_begin

Spec == Init /\ [][Next]_vars

\* Imports of cache-derived packs that carry derived state, between commands
\* and edits.
DerivedNext ==
    \/ edit_file
    \/ delete_into_neighbour
    \/ reconcile_begin
    \/ reconcile_load
    \/ reconcile_ingest_team
    \/ reconcile_ingest_board
    \/ reconcile_ingest_approvals
    \/ reconcile_set_hash
    \/ reconcile_set_ts
    \/ reconcile_add_event
    \/ import_derived_begin
    \/ import_memory_finish

DerivedSpec == Init /\ [][DerivedNext]_vars

\* The process that runs reconcile is killed between two steps of the call:
\* what the steps before committed stays in the database.
interrupt_reconcile ==
    /\ pc \in {"load", "team", "board", "approvals", "hash", "ts", "event"}
    /\ Raise("interrupted")
    /\ UNCHANGED <<envVars, clock, db, import_tmp, callVars, imp, seen, dirty, memVars, fs, auxVars>>

\* The edited canonical files are reverted to the documents as checked in.
revert_files ==
    /\ pc = "idle"
    /\ files # CommittedFiles
    /\ files' = CommittedFiles
    /\ dirty' = TRUE
    /\ UNCHANGED <<edits, ops, clock, db, import_tmp, pc, caller, callVars, ret, imp, seen, memVars, fs, auxVars>>

\* An edit while no call runs.
edit_between_calls == pc = "idle" /\ edit_file

\* Reconcile calls that run to their end, fail or are interrupted, between edits.
InterruptNext ==
    \/ edit_between_calls
    \/ revert_files
    \/ reconcile_begin
    \/ reconcile_load
    \/ reconcile_ingest_team
    \/ reconcile_ingest_board
    \/ reconcile_ingest_approvals
    \/ reconcile_set_hash
    \/ reconcile_set_ts
    \/ reconcile_add_event
    \/ interrupt_reconcile

InterruptSpec == Init /\ [][InterruptNext]_vars

\* Reconcile calls between edits of the canonical files.
HashNext ==
    \/ edit_between_calls
    \/ delete_into_neighbour
    \/ reconcile_begin
    \/ reconcile_load
    \/ reconcile_ingest_team
    \/ reconcile_ingest_board
    \/ reconcile_ingest_approvals
    \/ reconcile_set_hash
    \/ reconcile_set_ts
    \/ reconcile_add_event

HashSpec == Init /\ [][HashNext]_vars

\* ------------------------------------------------- the session memory store

\* _now(): the clock is read, and has moved on at the next reading.
Tick == clock < MaxTime /\ clock' = clock + 1

\* The caller of import_pack has its result; the next call is another one.
Returned == impRet' = "none" /\ memPre' = EmptyStore /\ rowcount' = 0

insert_message_with(content) ==
    /\ mem.seq.messages < MaxId
    /\ Tick
    /\ \E session_id \in Sessions, namespace \in Namespaces :
          mem' = Insert(mem, "messages",
                        MessageValues(session_id, namespace, "user", content, clock))
    /\ Returned
    /\ UNCHANGED <<cacheOnly, fs, auxVars, pack, exported>>

insert_message == insert_message_with("x")

insert_fact_with(fact_text) ==
    /\ mem.seq.facts < MaxId
    /\ Tick
    /\ \E session_id \in Sessions, namespace \in Namespaces,
          supersedes_id \in {{}} \cup {{f.id} : f \in mem.facts} :
          mem' = Insert(mem, "facts",
                        FactValues(session_id, namespace, fact_text, clock, 5,
                                   supersedes_id))
    /\ Returned
    /\ UNCHANGED <<cacheOnly, fs, auxVars, pack, exported>>

insert_fact == insert_fact_with("x")

\* insert_message and insert_fact with a text that is searched.
insert_message_text == \E content \in SearchTexts : insert_message_with(content)

insert_fact_text == \E fact_text \in SearchTexts : insert_fact_with(fact_text)

\* ensure_fts on a build of SQLite that has FTS5: the two index tables and the
\* four triggers are created; the rows already stored are not indexed.
ensure_fts ==
    /\ ~mem.fts.present
    /\ mem' = [mem EXCEPT !.fts.present = TRUE]
    /\ Returned
    /\ UNCHANGED <<cacheOnly, fs, auxVars, clock, pack, exported>>

delete_superseded_facts_in(session_id, namespace) ==
    /\ mem' = Delete(mem, "facts", superseded(mem.facts, session_id, namespace))
    /\ rowcount' = IF delete_raises(mem, "facts",
                                    superseded(mem.facts, session_id, namespace))
                   THEN 0
                   ELSE Cardinality(superseded(mem.facts, session_id, namespace))
    /\ last' = IF delete_raises(mem, "facts",
                                superseded(mem.facts, session_id, namespace))
               THEN Raises("delete_superseded_facts", "DatabaseError")
               ELSE Returns("delete_superseded_facts", rowcount')
    /\ impRet' = "none"
    /\ memPre' = EmptyStore
    /\ UNCHANGED <<cacheOnly, fs, red, race, pending, clock, pack, exported>>

delete_superseded_facts ==
    \E session_id \in Sessions, namespace \in Namespaces :
        delete_superseded_facts_in(session_id, namespace)

\* The UPDATE of the row SELECT ... fetchone() returned (any of the matching
\* rows: the SELECT has no ORDER BY), or an INSERT if none matched.
upsert_summary ==
    /\ Tick
    /\ \E session_id \in Sessions, namespace \in Namespaces, summary_text \in Texts :
          LET matching == {r \in mem.summaries :
                              /\ r.session_id = session_id
                              /\ r.namespace = namespace
                              /\ r.scope = "rolling"}
          IN IF matching # {}
             THEN \E existing \in matching :
                     mem' = [mem EXCEPT !.summaries =
                               (@ \ {existing})
                               \cup {[existing EXCEPT !.summary_text = summary_text,
                                                      !.ts = clock]}]
             ELSE /\ mem.seq.summaries < MaxId
                  /\ mem' = Insert(mem, "summaries",
                                   SummaryValues(session_id, namespace, summary_text,
                                                 clock, "rolling"))
    /\ Returned
    /\ UNCHANGED <<cacheOnly, fs, auxVars, pack, exported>>

store_add_event ==
    /\ mem.seq.events < MaxId
    /\ Tick
    /\ mem' = Insert(mem, "events", EventValues(clock, "note"))
    /\ Returned
    /\ UNCHANGED <<cacheOnly, fs, auxVars, pack, exported>>

purge_messages ==
    /\ \E namespace \in {{}} \cup {{n} : n \in Namespaces} :
          mem' = Delete(mem, "messages",
                        mem.messages \ purge_rows(mem.messages, namespace, {}))
    /\ mem' # mem
    /\ Returned
    /\ UNCHANGED <<cacheOnly, fs, auxVars, clock, pack, exported>>

\* purge_summaries: "if namespace:" deletes the rows of the namespace, else all.
purge_summaries ==
    /\ \E namespace \in {{}} \cup {{n} : n \in Namespaces} :
          mem' = Delete(mem, "summaries",
                        {r \in mem.summaries :
                            \A n \in namespace : n = "" \/ r.namespace = n})
    /\ mem' # mem
    /\ Returned
    /\ UNCHANGED <<cacheOnly, fs, auxVars, clock, pack, exported>>

\* A store on another machine, or a new database file: connect() on a path
\* that holds no database yet.
connect_new_store ==
    /\ mem # EmptyStore
    /\ mem' = EmptyStore
    /\ Returned
    /\ UNCHANGED <<cacheOnly, fs, auxVars, clock, pack, exported>>

\* ------------------------------------------------------------ the pack codec

\* export_pack to a directory: the files are written over those of an earlier
\* export to the same directory.
export_pack ==
    /\ Tick
    /\ \E namespaces \in {{}, {{"n1"}}} :
          LET written == ExportedFiles(mem, namespaces, clock)
          IN /\ pack' = [exists |-> TRUE, files |-> written @@ pack.files]
             /\ exported' = [files |-> pack'.files, source |-> mem,
                             namespaces |-> namespaces]
    /\ Returned
    /\ UNCHANGED <<cacheOnly, fs, auxVars, mem>>

\* Between export and import a data file of the pack is altered.
tamper_data_file ==
    /\ pack.files = exported.files
    /\ \E name \in DataFiles :
          /\ Has(pack, name)
          /\ \E lines \in Tamperings(name, exported.files[name]) :
                pack' = [pack EXCEPT !.files[name] = lines]
    /\ pack' # pack
    /\ Returned
    /\ UNCHANGED <<cacheOnly, fs, auxVars, clock, mem, exported>>

\* Between export and import a file of the pack is removed.
remove_pack_file ==
    /\ pack.files = exported.files
    /\ \E name \in DataFiles \cup {"checksums.json", "manifest.json"} :
          /\ Has(pack, name)
          /\ pack' = [pack EXCEPT !.files = [n \in DOMAIN @ \ {name} |-> @[n]]]
    /\ Returned
    /\ UNCHANGED <<cacheOnly, fs, auxVars, clock, mem, exported>>

\* A pack written by an exporter of another format version.
other_version_pack ==
    /\ pack.files = exported.files
    /\ Has(pack, "manifest.json")
    /\ pack' = [pack EXCEPT !.files["manifest.json"].version = "2.0"]
    /\ Returned
    /\ UNCHANGED <<cacheOnly, fs, auxVars, clock, mem, exported>>

\* A pack that was written with a malformed record: the first line of a data
\* file lacks its text, and checksums.json lists the digest of the file as it is.
malformed_record_pack ==
    /\ pack.files = exported.files
    /\ Has(pack, "checksums.json")
    /\ \E name \in DataFiles :
          /\ Has(pack, name)
          /\ name \in DOMAIN pack.files["checksums.json"]
          /\ pack.files[name] # <<>>
          /\ LET lines == [pack.files[name] EXCEPT ![1] = Malformed(name, @)]
             IN pack' = [pack EXCEPT !.files[name] = lines,
                                     !.files["checksums.json"][name] = sha256_file(lines)]
    /\ Returned
    /\ UNCHANGED <<cacheOnly, fs, auxVars, clock, mem, exported>>

\* import_pack from a directory.
import_pack ==
    /\ \A t \in TableNames : import_tables(mem, pack).seq[t] <= MaxId
    /\ memPre' = mem
    /\ impRet' = IF import_outcome(pack) # "ok" THEN import_outcome(pack)
                 ELSE IF import_tables_raises(pack) THEN "insert_error" ELSE "ok"
    /\ mem' = IF import_outcome(pack) = "ok" THEN import_tables(mem, pack) ELSE mem
    /\ UNCHANGED <<cacheOnly, fs, auxVars, clock, pack, exported, rowcount>>

MemNext ==
    \/ insert_message
    \/ insert_fact
    \/ upsert_summary
    \/ store_add_event
    \/ purge_messages
    \/ connect_new_store
    \/ export_pack
    \/ tamper_data_file
    \/ remove_pack_file
    \/ import_pack

MemSpec == Init /\ [][MemNext]_vars

\* export_pack to a path with the suffix .zip: the files are written into the
\* staging directory next to it (over what it may hold), zipped, and the
\* staging directory is removed.
export_pack_zip ==
    /\ Tick
    /\ \E namespaces \in {{}, {{"n1"}}} :
          LET pack_dir == [exists |-> TRUE,
                           files |-> ExportedFiles(mem, namespaces, clock)
                                     @@ fs.staging.files]
          IN fs' = [fs EXCEPT !.archive = pack_dir, !.staging = rmtree(pack_dir)]
    /\ Returned
    /\ UNCHANGED <<cacheOnly, mem, pack, exported, auxVars>>

\* export_memory with an out_path of suffix .zip, as a command of its own: the
\* pack is written into memory_pack_cache/memory_pack_<ts>, zipped, and that
\* directory is removed.  connect_db creates the cache if it is missing.
export_memory_zip ==
    /\ pc = "idle"
    /\ ops < MaxOps
    /\ ops' = ops + 1
    /\ clock' = clock + 2
    /\ db' = connect_db(db)
    /\ LET pack_dir == [exists |-> TRUE, files |-> <<>>]
       IN fs' = [fs EXCEPT
                  !.cache_archive =
                      [exists |-> TRUE,
                       pack |-> CachePack(TRUE, TRUE, "1.0", compute_canonical_hash(files),
                                          export_events(db'.events),
                                          {export_derived(db')})],
                  !.cache_staging = rmtree(pack_dir).exists]
    /\ UNCHANGED <<files, edits, import_tmp, pc, caller, callVars, ret, dirty, imp, seen,
                   memVars, auxVars>>

\* The exports to archives, with what fills the stores they export.
ZipNext ==
    \/ reconcile_begin
    \/ reconcile_load
    \/ reconcile_ingest_team
    \/ reconcile_ingest_board
    \/ reconcile_ingest_approvals
    \/ reconcile_set_hash
    \/ reconcile_set_ts
    \/ reconcile_add_event
    \/ export_memory_zip
    \/ insert_message
    \/ store_add_event
    \/ export_pack_zip

ZipSpec == Init /\ [][ZipNext]_vars

\* The facts and messages of a store, its index, and the views on them.
ViewNext ==
    \/ ensure_fts
    \/ insert_message_text
    \/ insert_fact_text
    \/ delete_superseded_facts

ViewSpec == Init /\ [][ViewNext]_vars

\* Imports into a store that holds rows, of packs that import or fail.
AppendNext ==
    \/ insert_message
    \/ insert_fact
    \/ upsert_summary
    \/ purge_summaries
    \/ export_pack
    \/ other_version_pack
    \/ malformed_record_pack
    \/ import_pack

AppendSpec == Init /\ [][AppendNext]_vars

\* The two importers, each with the operations that prepare its input.
ImportNext ==
    \/ import_memory_begin
    \/ reconcile_begin
    \/ reconcile_load
    \/ reconcile_ingest_team
    \/ reconcile_ingest_board
    \/ reconcile_ingest_approvals
    \/ reconcile_set_hash
    \/ reconcile_set_ts
    \/ reconcile_add_event
    \/ import_memory_finish
    \/ insert_message
    \/ export_pack
    \/ other_version_pack
    \/ remove_pack_file
    \/ import_pack

ImportSpec == Init /\ [][ImportNext]_vars

\* --------------------------------------- connect_db by concurrent processes

\* connect_db: db_path.exists().
race_exists(p) ==
    /\ race.pc[p] = "start"
    /\ race' = [race EXCEPT !.pc[p] = IF race.exists THEN "connect" ELSE "create"]

\* connect_db on a file that was found: sqlite3.connect, and the call returns.
race_connect(p) ==
    /\ race.pc[p] = "connect"
    /\ race' = [race EXCEPT !.pc[p] = "done"]

\* create_db: mkdir and sqlite3.connect, which creates the file if it is missing.
race_open(p) ==
    /\ race.pc[p] = "create"
    /\ race' = [race EXCEPT !.exists = TRUE, !.pc[p] = "script", !.next[p] = 1]

\* executescript(SCHEMA_SQL): the next statement of the script, which SQLite
\* runs under the file's write lock, a statement of another process before or
\* after it.
race_create_table(p) ==
    /\ race.pc[p] = "script"
    /\ race' = [race EXCEPT
                  !.schema = create_table(@, SchemaTables[race.next[p]]),
                  !.next[p] = @ + 1,
                  !.pc[p] = IF race.next[p] = Len(SchemaTables) THEN "commit" ELSE "script"]

\* conn.commit(), and the call returns.
race_commit(p) ==
    /\ race.pc[p] = "commit"
    /\ race' = [race EXCEPT !.pc[p] = "done"]

\* The process applies the schema once more: create_db on the file as it is.
race_create_db_again(p) ==
    /\ race.pc[p] = "done"
    /\ race.calls[p] < MaxCalls
    /\ race' = [race EXCEPT !.pc[p] = "create", !.calls[p] = @ + 1]

race_step(p) ==
    /\ \/ race_exists(p)
       \/ race_connect(p)
       \/ race_open(p)
       \/ race_create_table(p)
       \/ race_commit(p)
       \/ race_create_db_again(p)
    /\ UNCHANGED <<cacheVars, memVars, fs, red, last, pending>>

RaceNext == \E p \in Procs : race_step(p)

\* Every process that can take a step takes one in the end.
RaceSpec == Init /\ [][RaceNext]_vars /\ \A p \in Procs : WF_vars(race_step(p))

\* --------------------------------------------------------- calls of redact

\* redact(text, denylist) on a text of the model.
redact_text ==
    /\ red.calls = 0
    /\ \E b \in TextsBefore, p \in SecretPrefixes, v \in SecretValues, a \in TextsAfter,
          d \in Denylists :
          LET parts == [before |-> b, prefix |-> p, value |-> v, after |-> a]
              out == redact(Join(parts), d)
          IN red' = [parts |-> parts, denylist |-> d, calls |-> 1, first |-> out,
                     result |-> out, passed |-> red.passed \cup {out}]
    /\ UNCHANGED <<cacheVars, memVars, fs, race, last, pending>>

\* redact(result, denylist) on what the call before returned.
redact_again ==
    /\ red.calls = 1
    /\ LET out == redact(red.result, red.denylist)
       IN red' = [red EXCEPT !.calls = 2, !.result = out, !.passed = @ \cup {out}]
    /\ UNCHANGED <<cacheVars, memVars, fs, race, last, pending>>

RedactNext == redact_text \/ redact_again

RedactSpec == Init /\ [][RedactNext]_vars

\* The texts that are written to the store: a secret after its prefix.
RawTexts ==
    {Join([before |-> <<>>, prefix |-> p, value |-> Rep("a", SkMin), after |-> <<>>]) :
        p \in {HeaderBearer, LitSk}}

\* SessionMemory.add_message: the content goes through redact and then to
\* insert_message.
add_message ==
    /\ mem.seq.messages < MaxId
    /\ Tick
    /\ \E session_id \in Sessions, namespace \in Namespaces, content \in RawTexts :
          LET redacted == redact(content, <<>>)
          IN /\ red' = [red EXCEPT !.passed = @ \cup {redacted}]
             /\ mem' = Insert(mem, "messages",
                              MessageValues(session_id, namespace, "user", redacted, clock))
    /\ Returned
    /\ UNCHANGED <<cacheOnly, fs, race, last, pending, pack, exported>>

\* A pack that export_pack wrote on another machine, from a store whose one
\* message was inserted as it was.
foreign_pack ==
    /\ ~pack.exists
    /\ \E session_id \in Sessions, namespace \in Namespaces, content \in RawTexts :
          LET store == Insert(EmptyStore, "messages",
                              MessageValues(session_id, namespace, "user", content, 1))
          IN /\ pack' = [exists |-> TRUE, files |-> ExportedFiles(store, {}, 2)]
             /\ exported' = [files |-> pack'.files, source |-> store, namespaces |-> {}]
    /\ Returned
    /\ UNCHANGED <<cacheOnly, fs, auxVars, clock, mem>>

GateNext == add_message \/ export_pack \/ foreign_pack \/ import_pack

GateSpec == Init /\ [][GateNext]_vars

\* ------------------------------------------ calls of the store, with results

\* upsert_summary with its arguments; last holds the id it returns: existing["id"]
\* of the row SELECT ... fetchone() returned (any of the matching rows: the
\* SELECT has no ORDER BY), or cur.lastrowid of the INSERT.
upsert_summary_of(session_id, namespace, summary_text, scope) ==
    /\ Tick
    /\ LET matching == SummariesOf(mem.summaries, session_id, namespace, scope)
       IN IF matching # {}
          THEN \E existing \in matching :
                  /\ mem' = [mem EXCEPT !.summaries =
                                update_summary(@, existing, summary_text, clock)]
                  /\ last' = Returns("upsert_summary", existing.id)
          ELSE /\ mem.seq.summaries < MaxId
               /\ mem' = Insert(mem, "summaries",
                                SummaryValues(session_id, namespace, summary_text,
                                              clock, scope))
               /\ last' = Returns("upsert_summary", mem.seq.summaries + 1)
    /\ Returned
    /\ UNCHANGED <<cacheOnly, fs, red, race, pending, pack, exported>>

upsert_summary_scoped ==
    \E session_id \in Sessions, namespace \in Namespaces, summary_text \in Texts,
       scope \in Scopes :
        upsert_summary_of(session_id, namespace, summary_text, scope)

\* The namespaces a row can carry: namespace is TEXT NOT NULL.
RowNamespaces == Namespaces \cup {""}

\* Rows in every namespace a row can carry.
insert_in_namespace ==
    /\ Tick
    /\ \E table \in {"messages", "facts"}, session_id \in Sessions,
          namespace \in RowNamespaces :
          /\ mem.seq[table] < MaxId
          /\ mem' = Insert(mem, table,
                           IF table = "messages"
                           THEN MessageValues(session_id, namespace, "user", "x", clock)
                           ELSE FactValues(session_id, namespace, "x", clock, 5, {}))
    /\ Returned
    /\ UNCHANGED <<cacheOnly, fs, auxVars, pack, exported>>

upsert_in_namespace ==
    \E session_id \in Sessions, namespace \in RowNamespaces :
        upsert_summary_of(session_id, namespace, "x", "rolling")

\* The tables that have a purge function.
PurgeTables == {"messages", "facts", "summaries"}

\* The arguments of a purge: None or a namespace, None or a cutoff.
PurgeNamespaces == {{}} \cup {{n} : n \in RowNamespaces}
Cutoffs == {{}} \cup {{t} : t \in 1..MaxTime}

\* purge_messages, purge_facts and purge_summaries with their arguments.
\* purge_summaries has the parameters (conn, namespace): a call that passes a
\* cutoff raises TypeError before the function body runs.
purge_of(table, namespace, older_than_iso) ==
    /\ IF table = "summaries" /\ older_than_iso # {}
       THEN /\ mem' = mem
            /\ last' = Raises("purge_" \o table, "TypeError")
       ELSE LET doomed == mem[table] \ purge_rows(mem[table], namespace, older_than_iso)
            IN /\ mem' = Delete(mem, table, doomed)
               /\ last' = IF delete_raises(mem, table, doomed)
                          THEN Raises("purge_" \o table, "DatabaseError")
                          ELSE Returns("purge_" \o table, Cardinality(doomed))
    /\ Returned
    /\ UNCHANGED <<cacheOnly, fs, red, race, pending, clock, pack, exported>>

purge ==
    \E table \in PurgeTables, namespace \in PurgeNamespaces, older_than_iso \in Cutoffs :
        purge_of(table, namespace, older_than_iso)

PurgeNext ==
    \/ insert_in_namespace
    \/ upsert_in_namespace
    \/ purge

PurgeSpec == Init /\ [][PurgeNext]_vars

\* The write operations of the store.
WriteOps ==
    {"insert_message", "insert_fact", "upsert_summary", "purge_messages",
     "purge_facts", "purge_summaries", "delete_superseded_facts", "add_event",
     "set_meta"}

\* What the statements of a write operation leave in the connection that
\* reads store, for the arguments the model gives it.
Written(op, store, now) ==
    CASE op = "insert_message" ->
           {Insert(store, "messages", MessageValues("s1", "n1", "user", "x", now))}
      [] op = "insert_fact" ->
           {Insert(store, "facts", FactValues("s1", "n1", "x", now, 5, supersedes_id)) :
              supersedes_id \in {{}} \cup {{f.id} : f \in store.facts}}
      [] op = "upsert_summary" ->
           IF SummariesOf(store.summaries, "s1", "n1", "rolling") = {}
           THEN {Insert(store, "summaries", SummaryValues("s1", "n1", "x", now, "rolling"))}
           ELSE {[store EXCEPT !.summaries = update_summary(@, existing, "y", now)] :
                   existing \in SummariesOf(store.summaries, "s1", "n1", "rolling")}
      [] op = "purge_messages" ->
           {Delete(store, "messages", store.messages \ purge_rows(store.messages, {}, {}))}
      [] op = "purge_facts" ->
           {Delete(store, "facts", store.facts \ purge_rows(store.facts, {}, {}))}
      [] op = "purge_summaries" ->
           {Delete(store, "summaries", store.summaries)}
      [] op = "delete_superseded_facts" ->
           {Delete(store, "facts", superseded(store.facts, "s1", "n1"))}
      [] op = "add_event" -> {Insert(store, "events", EventValues(now, "note"))}
      [] OTHER -> {set_meta(store, "k", value) : value \in Texts}

\* A write operation on the connection: its statements, conn.commit(), return.
store_write(op) ==
    /\ Tick
    /\ \E written \in Written(op, Seen(mem, pending), clock) :
          /\ \A t \in TableNames : written.seq[t] <= MaxId
          /\ mem' = commit(mem, written)
          /\ pending' = IF mem' = written THEN {} ELSE {written}
    /\ last' = Returns(op, 0)
    /\ Returned
    /\ UNCHANGED <<cacheOnly, fs, red, race, pack, exported>>

write_operation == \E op \in WriteOps : store_write(op)

\* import_pack of a messages.jsonl whose second line lacks a NOT NULL field:
\* _import_jsonl has inserted the first line when the second raises, before
\* its conn.commit(); the row stays in the connection, uncommitted.
import_raises_with_row ==
    /\ pending = {}
    /\ mem.seq.messages < MaxId
    /\ pending' = {Insert(mem, "messages", MessageValues("s1", "n1", "user", "x", 0))}
    /\ last' = Raises("import_pack", "IntegrityError")
    /\ Returned
    /\ UNCHANGED <<cacheOnly, fs, red, race, clock, mem, pack, exported>>

CommitNext ==
    \/ write_operation
    \/ import_raises_with_row

CommitSpec == Init /\ [][CommitNext]_vars

\* Rows of several sessions, namespaces and importances, and the deletes that
\* leave gaps in their ids.
MaxRows == 3
ViewSessions == {"s1", "s2"}
Importances == {3, 5}

insert_ranked_fact ==
    /\ mem.seq.facts < MaxRows
    /\ Tick
    /\ \E session_id \in ViewSessions, namespace \in Namespaces,
          importance \in Importances,
          supersedes_id \in {{}} \cup {{f.id} : f \in mem.facts} :
          mem' = Insert(mem, "facts",
                        FactValues(session_id, namespace, "x", clock, importance,
                                   supersedes_id))
    /\ Returned
    /\ UNCHANGED <<cacheOnly, fs, auxVars, pack, exported>>

insert_session_message ==
    /\ mem.seq.messages < MaxRows
    /\ Tick
    /\ \E session_id \in ViewSessions, namespace \in Namespaces :
          mem' = Insert(mem, "messages",
                        MessageValues(session_id, namespace, "user", "x", clock))
    /\ Returned
    /\ UNCHANGED <<cacheOnly, fs, auxVars, pack, exported>>

ReadNext ==
    \/ insert_ranked_fact
    \/ insert_session_message
    \/ purge_messages
    \/ delete_superseded_facts

ReadSpec == Init /\ [][ReadNext]_vars

\* The queries _escape_fts_query is given: the letters of OR, NOT and of words
\* that hold them, blanks and quotes.
MaxQuery == 4
QueryChars == {"N", "O", "T", "E", "R", " ", "\""}
QueryTexts == UNION {[1..n -> QueryChars] : n \in 0..MaxQuery}

\* One call: the function reads nothing but its argument.
escape_query ==
    /\ last = NoResult
    /\ \E query \in QueryTexts :
          last' = Returns("_escape_fts_query",
                          [query |-> query, safe_query |-> escaped_query(query)])
    /\ UNCHANGED <<cacheVars, memVars, fs, red, race, pending>>

EscapeNext == escape_query

EscapeSpec == Init /\ [][EscapeNext]_vars

\* Every operation that inserts or deletes messages and facts, on a store
\* with or without the index.
IndexNext ==
    \/ ensure_fts
    \/ insert_message
    \/ insert_fact
    \/ export_pack
    \/ import_pack
    \/ purge
    \/ delete_superseded_facts

IndexSpec == Init /\ [][IndexNext]_vars

\* Summaries written through upsert_summary, and packs imported next to them.
SummaryNext ==
    \/ upsert_summary_scoped
    \/ export_pack
    \/ import_pack

SummarySpec == Init /\ [][SummaryNext]_vars

\* ------------------------------------------------------------------- claims

IsPrefix(s, t) == Len(s) <= Len(t) /\ SubSeq(t, 1, Len(s)) = s

Tables(d) ==
    [workers |-> d.workers, tasks |-> d.tasks, approvals |-> d.approvals,
     snapshots |-> d.snapshots, events |-> d.events]

StoredHash(d) == {r.value : r \in {q \in d.snapshots : q.key = "canonical_hash"}}

\* C1 as stated: whatever the canonical documents are, a reconcile call that
\* follows another with no canonical edit in between returns False.
C1_SecondCallAlwaysFalse ==
    [][ (reconcile_begin /\ ret # "none" /\ ~dirty) => ret' = "false" ]_vars

\* C1, amended: a reconcile call that finds the stored canonical_hash equal to
\* the hash of the canonical files returns False and writes nothing; so does a
\* call that follows a reconcile call that returned (True or False), with no
\* canonical edit in between.
C1_IdempotentReconcile ==
    [][ (reconcile_begin
          /\ \/ StoredHash(db) = {compute_canonical_hash(files)}
             \/ ret \in {"true", "false"} /\ ~dirty)
        => (ret' = "false" /\ db' = db /\ pc' \in {"idle", "import_event"}) ]_vars

\* A second call returned False on a cache the first call had filled.
C1_Witness ==
    /\ ret = "false"
    /\ ops = 2
    /\ ~dirty
    /\ db.workers # {}
    /\ Tables(db) = Tables(pre)

\* C2: after a reconcile that returned True, workers, tasks and approvals hold
\* exactly the rows the ingestion of the loaded documents produces on empty
\* tables: no row of an earlier version of the documents is left.
C2_CacheMirrorsCanonical ==
    ret = "true" =>
        /\ db.workers = ingest_team({}, state.team)
        /\ \E now \in 0..clock : db.tasks = ingest_board({}, state.board, now)
        /\ \E seq \in 0..db.seq_approvals :
              db.approvals = ingest_approvals({}, seq, state.approvals)

\* A re-ingest dropped a worker, a task or an approval the cache held before.
C2_Witness ==
    /\ ret = "true"
    /\ \/ \E r \in pre.workers : \A q \in db.workers : q.id # r.id
       \/ \E r \in pre.tasks : \A q \in db.tasks : q.id # r.id
       \/ pre.approvals # {} /\ db.approvals = {}

\* C3: a reconcile call that fails leaves workers, tasks, approvals, snapshots
\* and events as it found them.
C3_AtomicReconcile ==
    ret \in {"load_error", "ingest_error"} => Tables(db) = Tables(pre)

\* C4: what a reader on its own connection read while a reconcile call ran is
\* the state before the call or the state after it.
C4_ReaderSeesPreOrPost ==
    ret = "true" => seen \subseteq {View(pre), View(db)}

\* C5: a reconcile call returns False only on equal hashes; one that returns
\* True found a different (or no) stored hash, leaves one canonical_hash row
\* holding the hash it computed and one last_ingested_ts row, and has appended
\* one event, of type reconcile, whose payload is that hash.
C5_ReingestRecordsHash ==
    /\ ret = "false" => StoredHash(pre) = {curHash}
    /\ ret = "true" =>
        /\ StoredHash(pre) # {curHash}
        /\ {r \in db.snapshots : r.key = "canonical_hash"}
              = {[key |-> "canonical_hash", value |-> curHash]}
        /\ Cardinality({r \in db.snapshots : r.key = "last_ingested_ts"}) = 1
        /\ Cardinality(db.snapshots) = 2
        /\ Len(db.events) = Len(pre.events) + 1
        /\ IsPrefix(pre.events, db.events)
        /\ db.events[Len(db.events)].type = "reconcile"
        /\ db.events[Len(db.events)].actor = "system"
        /\ db.events[Len(db.events)].payload_json = {[hash |-> curHash]}

\* A re-ingest replaced a stored hash of other documents.
C5_Witness ==
    /\ ret = "true"
    /\ StoredHash(pre) # {}
    /\ StoredHash(pre) # {curHash}
    /\ StoredHash(db) = {curHash}

\* C6: no step of reconcile or import_memory deletes or changes a row of
\* events: the log before the step is a prefix of the log after it.
C6_EventsAppendOnly ==
    [][ rehydrate_begin \/ IsPrefix(db.events, db'.events) ]_vars

\* An import appended a pack's event and its own after a reconcile's.
C6_Witness ==
    /\ Len(db.events) >= 3
    /\ db.events[1].type = "reconcile"
    /\ db.events[Len(db.events)].type = "import_memory"

\* C7: when re-ingestion is required and one of the four documents is missing
\* or is not YAML, reconcile raises and workers, tasks, approvals and the stored
\* canonical_hash stay as they were, the stored hash still differing from the
\* computed one.
C7_UnreadableDocumentRaises ==
    [][ (pc = "load" /\ pc' # "load"
          /\ \E n \in CanonicalNames : ~files[n].exists \/ Contains(files[n].bytes, "!"))
        => /\ ret' = "load_error"
           /\ pc' = "idle"
           /\ db' = db
           /\ Tables(db) = Tables(pre)
           /\ StoredHash(db') # {curHash} ]_vars

\* A call raised on an unreadable document over a cache that held rows.
C7_Witness ==
    /\ ret = "load_error"
    /\ pre.workers # {}
    /\ Tables(db) = Tables(pre)

\* ------------------------------------------------------ claims on the packs

\* The rows of the four tables of a store.
Rows(store) == [t \in TableNames |-> store[t]]

\* The pack directory holds exactly what one unfiltered export_pack call wrote.
WholeExport ==
    /\ exported.namespaces = {}
    /\ Has(pack, "manifest.json")
    /\ pack.files = ExportedFiles(exported.source, {},
                                  exported.files["manifest.json"].created_at)

\* C8 (as claimed): an unfiltered export_pack of a store, imported with
\* import_pack into a store that holds no rows yet, leaves in the messages,
\* facts, summaries and events tables exactly the rows of the exported store,
\* whatever its contents: ids with gaps left by purges, facts with
\* supersedes_id set.
C8_PackRoundTrip ==
    (impRet = "ok" /\ memPre = EmptyStore /\ WholeExport)
        => Rows(mem) = Rows(exported.source)

\* A data file the export wrote and listed in checksums.json has other content
\* than it was exported with.
DataFileChanged ==
    \E name \in DataFiles :
        /\ Has(pack, name)
        /\ name \in DOMAIN exported.files
        /\ name \in DOMAIN exported.files["checksums.json"]
        /\ pack.files[name] # exported.files[name]

\* checksums.json and manifest.json are in the pack as exported.
ChecksumsAsExported ==
    /\ Has(pack, "checksums.json") /\ Has(pack, "manifest.json")
    /\ pack.files["checksums.json"] = exported.files["checksums.json"]
    /\ pack.files["manifest.json"] = exported.files["manifest.json"]

PartialPack ==
    /\ pack.exists
    /\ \/ ~Has(pack, "checksums.json")
       \/ \E filename \in DOMAIN pack.files["checksums.json"] : ~Has(pack, filename)

\* C10 (as claimed): import_pack of a pack without checksums.json, or without
\* a file that its checksums.json lists, is refused and writes no row.
C10_PartialPackRejected ==
    (impRet # "none" /\ PartialPack) => (impRet # "ok" /\ mem = memPre)

\* C11 (as claimed): once an import call has returned or raised, the scratch
\* directory an archive was extracted into no longer exists.  Checked on
\* import_memory: between commands (pc = "idle") there is no
\* memory_pack_cache/import_tmp.
C11_ScratchDirRemoved == pc = "idle" => ~import_tmp

\* C12: an import whose manifest is missing or has a version other than "1.0"
\* is refused with every table as it was: import_memory returns its error with
\* the cache untouched, import_pack raises with the store untouched.
C12_BadManifestRejected ==
    [][ /\ \A p \in CachePacks :
              (import_memory_from(p) /\ (~p.manifest \/ p.version # "1.0"))
                  => (db' = db /\ pc' = "idle")
        /\ (/\ import_pack
            /\ pack.exists
            /\ (~Has(pack, "manifest.json")
                \/ pack.files["manifest.json"].version # "1.0"))
              => (impRet' \in {"no_manifest", "bad_version"} /\ mem' = mem)
      ]_vars

\* A pack of version 2.0 holding a message was refused.
C12_Witness ==
    /\ impRet = "bad_version"
    /\ Lines(pack, "messages.jsonl") # <<>>
    /\ mem = memPre

\* C13: import_pack only adds rows: every row the messages, facts, summaries
\* and events tables held before the call is in its table, field for field,
\* after the call, whether the call returned or raised.
C13_ImportAppendSafe ==
    impRet # "none" => \A t \in TableNames : memPre[t] \subseteq mem[t]

\* Rows were imported into a store that already held a message.
C13_Witness ==
    /\ impRet = "ok"
    /\ memPre.messages # {}
    /\ memPre.messages \subseteq mem.messages
    /\ mem.messages # memPre.messages

\* C14 (as claimed): an import_pack that raised while inserting rows leaves
\* the store as it was before the call.
C14_ImportAtomic == impRet = "insert_error" => mem = memPre

\* C15: an export to a path with the suffix .zip leaves the archive and no
\* staging directory, for export_pack and for export_memory.
C15_ArchiveWithoutStaging ==
    [][ /\ export_pack_zip => (fs'.archive.exists /\ ~fs'.staging.exists)
        /\ export_memory_zip => (fs'.cache_archive.exists /\ ~fs'.cache_staging)
      ]_vars

\* Both exporters wrote an archive: one with a message, one with an event.
C15_Witness ==
    /\ fs.archive.exists
    /\ Lines(fs.archive, "messages.jsonl") # <<>>
    /\ ~fs.staging.exists
    /\ fs.cache_archive.exists
    /\ fs.cache_archive.pack.events # <<>>
    /\ ~fs.cache_staging

\* C16 (as claimed): when export_pack has returned, checksums.json lists
\* manifest.json and every data file in the pack directory, each with the
\* digest of the file's content, also when the directory held the files of an
\* earlier export.
C16_ChecksumsCoverPack ==
    (pack.exists /\ Has(pack, "checksums.json") /\ pack.files = exported.files)
        => \A name \in (DataFiles \cup {"manifest.json"}) \cap DOMAIN pack.files :
              /\ name \in DOMAIN pack.files["checksums.json"]
              /\ pack.files["checksums.json"][name] = sha256_file(pack.files[name])

\* ------------------------------------------------ claims on views and search

Range(seq) == {seq[i] : i \in DOMAIN seq}

\* C17 (as claimed): when fact b was inserted with supersedes_id = a.id in the
\* (session, namespace) of fact a, get_facts returns b and no longer a.
C17_SupersededFactHidden ==
    \A a \in mem.facts, b \in mem.facts :
        (/\ b.supersedes_id = {a.id}
         /\ a.supersedes_id = {}
         /\ b.session_id = a.session_id
         /\ b.namespace = a.namespace)
            => LET active == Range(get_facts(mem.facts, a.session_id, a.namespace,
                                             FactsLimit))
               IN a \notin active /\ b \in active

\* No view of its (session, namespace) shows a fact whose supersedes_id is set.
C18_Excluded ==
    \A f \in mem.facts :
        f.supersedes_id # {} =>
            /\ f \notin Range(get_facts(mem.facts, f.session_id, f.namespace, FactsLimit))
            /\ get_fact_count(mem.facts, f.session_id, f.namespace)
                  = Cardinality({g \in mem.facts \ {f} :
                                    /\ g.session_id = f.session_id
                                    /\ g.namespace = f.namespace
                                    /\ g.supersedes_id = {}})
            /\ \A query \in Queries, use_fts \in BOOLEAN :
                  f \notin search_facts(mem, f.session_id, f.namespace, query, use_fts)

\* delete_superseded_facts deletes the rows of its (session, namespace) whose
\* supersedes_id is set, returns their number and leaves the other rows; no
\* other step takes a fact row away.
C18_Deleted ==
    /\ \A session_id \in Sessions, namespace \in Namespaces :
          delete_superseded_facts_in(session_id, namespace) =>
              LET doomed == {f \in mem.facts : /\ f.session_id = session_id
                                                /\ f.namespace = namespace
                                                /\ f.supersedes_id # {}}
              IN mem'.facts = mem.facts \ doomed /\ rowcount' = Cardinality(doomed)
    /\ \A f \in mem.facts \ mem'.facts :
          f.supersedes_id # {} /\ delete_superseded_facts_in(f.session_id, f.namespace)

\* C18 (as claimed): a fact row whose supersedes_id is set is in no active view (get_facts,
\* get_fact_count, search_facts on either path) from its insertion on, and
\* stays in the facts table until delete_superseded_facts is called for its
\* (session, namespace); the call deletes exactly those rows, returns their
\* number and leaves every other fact row as it was.
C18_SupersedingRowsExcluded == []C18_Excluded /\ [][C18_Deleted]_vars

\* The record of (session, namespace) that alone holds the query: it holds it
\* as a whole word, and no other record holds it even as a part of a word.
OnlyRecordWith(rows, column, session_id, namespace, query, r) ==
    /\ r \in rows /\ r.session_id = session_id /\ r.namespace = namespace
    /\ Occurs(Tokens(Chars(r[column])), <<LowerAll(Chars(query))>>)
    /\ \A o \in rows \ {r} :
          (o.session_id = session_id /\ o.namespace = namespace)
              => ~like(o[column], query)

\* Every row of the table is in the index with the text it holds.
Indexed(store, table) ==
    \A r \in store[table] : FtsEntry(table, r) \in store.fts[table]

\* C20 (as claimed): for a query of a single term held by exactly one record
\* of a (session, namespace), the indexed search and the substring search both
\* return that record and no other.
C20_SearchPathsAgree ==
    \A session_id \in Sessions, namespace \in Namespaces, query \in Queries :
        \A r \in mem.messages :
            (/\ mem.fts.present
             /\ Indexed(mem, "messages")
             /\ OnlyRecordWith(mem.messages, "content", session_id, namespace, query, r))
                => /\ search_messages(mem, session_id, namespace, query, TRUE) = {r}
                   /\ search_messages(mem, session_id, namespace, query, FALSE) = {r}

\* C19 (as claimed): the summaries table holds at most one row per (session id,
\* namespace, scope), whatever upsert_summary, purge_summaries and import_pack
\* calls were made.
C19_OneSummaryPerKey ==
    \A r1 \in mem.summaries, r2 \in mem.summaries :
        (/\ r1.session_id = r2.session_id
         /\ r1.namespace = r2.namespace
         /\ r1.scope = r2.scope) => r1 = r2

\* C21: redact of a text that holds "Authorization: Bearer <token>" returns a
\* text in which the prefix "Authorization: Bearer " stands before [REDACTED]
\* and in which the token does not occur.
C21_HeaderPrefixKept ==
    (red.calls = 1 /\ red.parts.prefix = HeaderBearer) =>
        /\ Occurs(red.result, HeaderBearer \o PLACEHOLDER)
        /\ ~Occurs(red.result, red.parts.value)

\* The built-in patterns match in the text made of the parts.
HoldsSecret(parts) == ApplyBuiltins(Join(parts), 1) # Join(parts)

\* C22: the output of redact does not depend on the secret: two texts that
\* differ only in the value a built-in pattern matches redact to the same text.
C22_OutputIndependentOfSecret ==
    (red.calls = 1 /\ HoldsSecret(red.parts)) =>
        \A v \in SecretValues :
            LET twin == [red.parts EXCEPT !.value = v]
            IN HoldsSecret(twin) => redact(Join(twin), red.denylist) = red.result

\* C23: redact is idempotent: redact(redact(t, d), d) = redact(t, d).
C23_RedactIdempotent == red.calls = 2 => red.result = red.first

\* C24: every message content, fact text and summary text that is a row of
\* the session memory store is a text that redact returned.
C24_StoredTextRedacted ==
    /\ \A m \in mem.messages : m.content \in red.passed
    /\ \A f \in mem.facts : f.fact_text \in red.passed
    /\ \A s \in mem.summaries : s.summary_text \in red.passed

\* The derived tables are what the ingestion of the documents docs gives.
Mirrors(d, docs) ==
    /\ d.workers = ingest_team({}, load_yaml(docs.team))
    /\ \E now \in 0..clock : d.tasks = ingest_board({}, load_yaml(docs.board), now)
    /\ \E seq \in 0..d.seq_approvals :
          d.approvals = ingest_approvals({}, seq, load_yaml(docs.approvals))

\* C25: import_memory of a cache-derived pack appends the pack's events, sets
\* derived_imported to whether the pack's canonical_hash equals the current
\* one, and writes no workers, tasks or approvals row of the pack: when the
\* import returns, the three tables are the ingestion of the current canonical
\* documents (no file being edited while the import runs).
C25_ImportIgnoresDerivedState ==
    [][ /\ \A p \in DerivedPacks :
              (import_memory_from(p) /\ ~manifest_rejected(p)) =>
                  /\ db'.events = import_events(connect_db(db).events, p.events)
                  /\ export_derived(db') = export_derived(connect_db(db))
                  /\ p.derived_state # {} =>
                        (imp'.derived_imported
                            <=> p.canonical_hash = compute_canonical_hash(files))
        /\ import_memory_finish =>
              /\ export_derived(db') = export_derived(db)
              /\ ~dirty => Mirrors(db', files) ]_vars

\* C26: whenever no reconcile call runs (the last one returned, failed or was
\* interrupted between two steps), if the stored canonical_hash is the hash of
\* the canonical documents D then workers, tasks and approvals are the
\* ingestion of D; D being the documents as they are now.
C26_HashGateSound ==
    (pc = "idle" /\ StoredHash(db) = {compute_canonical_hash(files)}) => Mirrors(db, files)

\* The documents docs differ from the loaded ones in the bytes or the presence
\* of a file.
Differs(docs, loaded) ==
    \E n \in CanonicalNames : ~docs[n].exists \/ docs[n].bytes # loaded[n]

\* C27: when the canonical documents differ from the ones last ingested in the
\* bytes or the presence of a file, the next reconcile finds the computed hash
\* different from the stored one and re-ingests.
C27_ChangeDetected ==
    [][ (reconcile_begin /\ ret = "true" /\ Differs(files, state))
        => (curHash' \notin StoredHash(db) /\ ret' = "running" /\ pc' = "load") ]_vars

\* C28: the canonical_hash a reconcile stores is the hash of the document
\* bytes it ingested, also when an editor changes a canonical file between the
\* call's hash computation and its load of the documents.
C28_StoredHashOfIngested ==
    ret = "true" =>
        StoredHash(db) = {Sha256(state.approvals \o state.board \o state.commands
                                   \o state.team)}

\* C29: handle_rehydrate_db rebuilds the cache from zero, whatever it held: its
\* reconcile starts on empty tables and re-ingests; when it returns, the events
\* table holds the one reconcile event of the rebuild and (no canonical file
\* having been edited since the call hashed them) workers, tasks and approvals
\* are the ingestion of the canonical documents and the stored canonical_hash
\* is their hash, so that a reconcile that follows returns False.
C29_RehydrateRebuilds ==
    [][ /\ (reconcile_begin /\ caller = "rehydrate") =>
              /\ ret' = "running"
              /\ Tables(db') = Tables(EmptyDb)
        /\ (reconcile_add_event /\ caller = "rehydrate") =>
              /\ pc' = "idle"
              /\ ret' = "true"
              /\ Len(db'.events) = 1
              /\ db'.events[1].type = "reconcile"
              /\ ~dirty =>
                    /\ Mirrors(db', files)
                    /\ hash_unchanged(get_snapshot(db'.snapshots, "canonical_hash"),
                                      compute_canonical_hash(files)) ]_vars

\* A rebuild returned over a cache that an earlier reconcile had filled: the
\* log holds the rebuild's event only, written after the earlier call's ticks.
C29_Witness ==
    /\ pc = "idle"
    /\ ret = "true"
    /\ ~dirty
    /\ ops = 2
    /\ Len(db.events) = 1
    /\ db.events[1].ts >= 6
    /\ db.workers # {}
    /\ StoredHash(db) = {compute_canonical_hash(files)}

\* C30: when two processes call connect_db on a database that does not exist
\* yet, in every interleaving no table is created twice, both calls return,
\* and once they have returned the schema holds events, workers, tasks,
\* approvals and snapshots; a second application of the schema changes nothing.
C30_Uncorrupted ==
    /\ \A i, j \in DOMAIN race.schema : race.schema[i] = race.schema[j] => i = j
    /\ (\A p \in Procs : race.pc[p] = "done") =>
          Range(race.schema) = Range(SchemaTables)

C30_SecondApplication ==
    \A p \in Procs :
        (race_create_table(p) /\ Range(race.schema) = Range(SchemaTables)) =>
            race'.schema = race.schema

C30_ConcurrentCreate ==
    /\ []C30_Uncorrupted
    /\ [][C30_SecondApplication]_vars
    /\ \A p \in Procs : <>(race.pc[p] = "done")

\* Both calls found no file and ran the script, their statements interleaved;
\* both have returned.
C30_Witness ==
    /\ \A p \in Procs : race.pc[p] = "done" /\ race.next[p] = Len(SchemaTables) + 1
    /\ \E p \in Procs : race.calls[p] > 1
    /\ Len(race.schema) = Len(SchemaTables)

\* ---------------------------------------------------- claims on the summaries

\* C31: upsert_summary(session, namespace, scope, text) updates in place a row
\* of that triple if there is one (its id is returned, its text and timestamp
\* are replaced, the number of rows and every other row stay as they were),
\* and otherwise inserts exactly one row and returns its id.
C31_UpsertInPlaceOrInsert ==
    [][\A session_id \in Sessions, namespace \in Namespaces, summary_text \in Texts,
         scope \in Scopes :
          upsert_summary_of(session_id, namespace, summary_text, scope) =>
              LET before == SummariesOf(mem.summaries, session_id, namespace, scope)
                  others(rows) == {r \in rows : r.id # last'.returned}
                  row == {r \in mem'.summaries : r.id = last'.returned}
              IN /\ row \subseteq SummariesOf(mem'.summaries, session_id, namespace, scope)
                 /\ Cardinality(row) = 1
                 /\ \A r \in row : r.summary_text = summary_text /\ r.ts = clock
                 /\ others(mem'.summaries) = others(mem.summaries)
                 /\ \A t \in TableNames \ {"summaries"} : mem'[t] = mem[t]
                 /\ IF before # {}
                    THEN /\ \E r \in before : r.id = last'.returned
                         /\ Cardinality(mem'.summaries) = Cardinality(mem.summaries)
                    ELSE /\ \A r \in mem.summaries : r.id # last'.returned
                         /\ Cardinality(mem'.summaries) = Cardinality(mem.summaries) + 1
      ]_vars

\* A row written at one time was updated in place at a later time, next to a
\* row of another triple.
C31_Witness ==
    /\ last.call = "upsert_summary"
    /\ Cardinality(mem.summaries) = 2
    /\ \E r \in mem.summaries : /\ r.id = last.returned
                                /\ r.id = 1
                                /\ r.ts >= 2
                                /\ r.summary_text = "y"

\* C32 (as claimed): in every state of the store, also after import_pack has
\* added summaries rows, get_summary(session, namespace, scope) called right
\* after upsert_summary(session, namespace, scope, text) has returned gives a
\* summary with that text.
C32_ReadYourWrites ==
    [][\A session_id \in Sessions, namespace \in Namespaces, summary_text \in Texts,
         scope \in Scopes :
          upsert_summary_of(session_id, namespace, summary_text, scope) =>
              /\ get_summary(mem'.summaries, session_id, namespace, scope) # {}
              /\ \A r \in get_summary(mem'.summaries, session_id, namespace, scope) :
                    r.summary_text = summary_text
      ]_vars

\* ------------------------------------------------------- claims on the purges

\* The rows a criterion that was supplied selects: the namespace is the given
\* one, the timestamp is earlier than the cutoff.
Selected(rows, namespace, older_than_iso) ==
    {r \in rows : /\ \A n \in namespace : r.namespace = n
                  /\ \A t \in older_than_iso : r.ts < t}

\* C33 (as claimed): purge_messages, purge_facts and purge_summaries each take
\* an optional namespace and an optional cutoff, delete exactly the rows of
\* their table that meet every criterion supplied (all rows if none is), leave
\* the other rows and tables as they were, and return the number deleted.
C33_PurgeExact ==
    [][\A table \in PurgeTables, namespace \in PurgeNamespaces,
         older_than_iso \in Cutoffs :
          purge_of(table, namespace, older_than_iso) =>
              LET doomed == Selected(mem[table], namespace, older_than_iso)
              IN /\ last'.raised = ""
                 /\ mem'[table] = mem[table] \ doomed
                 /\ \A t \in TableNames \ {table} : mem'[t] = mem[t]
                 /\ last'.returned = Cardinality(doomed)
      ]_vars

\* C34 (as claimed): a purge that is given a namespace deletes no row of
\* another namespace, whatever namespace a row can carry is given, the empty
\* string included.
C34_PurgeKeepsOtherNamespaces ==
    [][\A table \in PurgeTables, n \in RowNamespaces, older_than_iso \in Cutoffs :
          purge_of(table, {n}, older_than_iso) =>
              \A r \in mem[table] : r.namespace # n => r \in mem'[table]
      ]_vars

\* -------------------------------------------------------- claims on the index

\* Every entry of the index is the entry of a row of its table: the row's id
\* with the row's text.
Coupled(store) ==
    \A table \in FtsTables :
        store.fts[table] \subseteq {FtsEntry(table, r) : r \in store[table]}

\* A step adds to the index the entries of the rows it adds and takes from it
\* the entries of the rows it deletes.
CoupledStep ==
    \A table \in FtsTables :
        /\ mem'.fts[table] \ mem.fts[table]
              = {FtsEntry(table, r) : r \in mem'[table] \ mem[table]}
        /\ mem.fts[table] \ mem'.fts[table]
              = {FtsEntry(table, r) : r \in mem[table] \ mem'[table]} \cap mem.fts[table]

\* C35: whenever the index exists, each of its entries for messages and facts
\* is the entry of a row that exists, with its id and text, and insert_message,
\* insert_fact, import_pack, the purges and delete_superseded_facts add and
\* remove the entry in the step that commits the row: no entry precedes or
\* outlives its row.
C35_IndexCoupled ==
    /\ [](mem.fts.present => Coupled(mem))
    /\ [][mem.fts.present => CoupledStep]_vars

\* With the index in place a purge deleted an indexed message and left another.
C35_Witness ==
    /\ mem.fts.present
    /\ last.call = "purge_messages"
    /\ last.returned = 1
    /\ mem.fts.messages # {}
    /\ mem.seq.messages = 2

\* C36 (as claimed): whenever the index tables exist, every row of messages
\* and facts has its entry in the index, the rows inserted before ensure_fts
\* created the index included.
C36_IndexComplete ==
    mem.fts.present => Indexed(mem, "messages") /\ Indexed(mem, "facts")

\* ------------------------------------------------------- claims on the views

\* The boolean operators of an FTS5 query.
Operators == {<<"A", "N", "D">>, <<"O", "R">>, <<"N", "O", "T">>}

NotOperator(term) == term \notin Operators

\* The query as the claim sanitizes it: the characters " * ( ) taken out, the
\* terms that are operators dropped, every other term quoted as it stands.
Sanitized(query) ==
    LET terms == SelectSeq(SplitAt(SelectSeq(query, Keep), {" "}, <<>>), NotOperator)
    IN IF terms = <<>> THEN <<"\"", "\"">> ELSE JoinQuoted(terms)

\* C37 (as claimed): the sanitized query is the query without the characters
\* " * ( ) and without the terms AND, OR, NOT, each remaining term in double
\* quotes ('""' if none remains); a term that is no operator keeps all its
\* other characters.
C37_QuerySanitized ==
    last.call = "_escape_fts_query" =>
        last.returned.safe_query = Sanitized(last.returned.query)

\* The limits a view is called with.
MaxLimit == 3
Limits == 0..MaxLimit

Min(a, b) == IF a < b THEN a ELSE b

\* C38: get_facts returns the active facts of the given (session, namespace)
\* and of no other, the more important first and of equally important ones
\* the one inserted later first, and of that list the first limit entries.
C38_ActiveFactsOrdered ==
    \A session_id \in ViewSessions, namespace \in Namespaces, limit \in Limits :
        LET got == get_facts(mem.facts, session_id, namespace, limit)
            active == {f \in mem.facts : /\ f.session_id = session_id
                                         /\ f.namespace = namespace
                                         /\ f.supersedes_id = {}}
            ahead(f, g) == \/ f.importance > g.importance
                           \/ f.importance = g.importance /\ f.ts > g.ts
        IN /\ Range(got) \subseteq active
           /\ Len(got) = Min(limit, Cardinality(active))
           /\ \A i \in DOMAIN got, j \in DOMAIN got : i < j => ahead(got[i], got[j])
           /\ \A f \in active \ Range(got), g \in Range(got) : ahead(g, f)

\* Two facts of one importance and a more important one that was inserted
\* first, next to a fact of another session: the view of two cuts one off.
C38_Witness ==
    \E a \in mem.facts, b \in mem.facts, c \in mem.facts :
        /\ a.session_id = "s1" /\ a.namespace = "n1"
        /\ b.session_id = "s1" /\ b.namespace = "n1"
        /\ c.session_id = "s2"
        /\ a.id < b.id
        /\ a.importance = 5 /\ b.importance = 3
        /\ a.supersedes_id = {} /\ b.supersedes_id = {}
        /\ get_facts(mem.facts, "s1", "n1", 1) = <<a>>
        /\ get_facts(mem.facts, "s1", "n1", 2) = <<a, b>>

\* C39: get_recent_messages returns the min(limit, n) messages of the given
\* (session, namespace) that were inserted last, of its n messages, the oldest
\* of them first and the newest last, and no message of another session or
\* namespace.
C39_RecentMessagesNewestLast ==
    \A session_id \in ViewSessions, namespace \in Namespaces, limit \in Limits :
        LET got == get_recent_messages(mem.messages, session_id, namespace, limit)
            own == {m \in mem.messages : /\ m.session_id = session_id
                                         /\ m.namespace = namespace}
        IN /\ Range(got) \subseteq own
           /\ Len(got) = Min(limit, Cardinality(own))
           /\ \A i \in DOMAIN got, j \in DOMAIN got : i < j => got[i].ts < got[j].ts
           /\ \A m \in own \ Range(got), g \in Range(got) : m.ts < g.ts

\* Three messages of one (session, namespace): the view of two holds the last
\* two, the newest at the end.
C39_Witness ==
    /\ Cardinality(mem.messages) = 3
    /\ \A m \in mem.messages : m.session_id = "s1" /\ m.namespace = "n1"
    /\ LET got == get_recent_messages(mem.messages, "s1", "n1", 2)
       IN Len(got) = 2 /\ got[1].id = 2 /\ got[2].id = 3

\* ----------------------------------------------------- claims on the commits

\* C40: when insert_message, insert_fact, upsert_summary, a purge,
\* delete_superseded_facts, add_event or set_meta returns, the connection
\* holds no uncommitted change, and what it wrote is what a second connection
\* reads.
C40_WritesCommitted ==
    [][\A op \in WriteOps :
          store_write(op) =>
              /\ pending' = {}
              /\ mem' \in Written(op, Seen(mem, pending), clock)
      ]_vars

\* insert_message returned on a connection that held an uncommitted row of a
\* failed import: both rows are committed.
C40_Witness ==
    /\ last.call = "insert_message"
    /\ pending = {}
    /\ \E m \in mem.messages : m.ts = 0
    /\ \E m \in mem.messages : m.ts > 0
    /\ mem.meta # {}

====
